---- MODULE Spec2Model ----
(***************************************************************************)
(* Quantitative core of monte-canvas: single-asset Monte Carlo simulation  *)
(* (plain GBM in src/src/lib/monteCarlo.ts, jump-enhanced GBM in           *)
(* src/unnamed/part_014), terminal-value statistics and risk metrics, and  *)
(* the correlated portfolio simulation of src/unnamed/part_016.            *)
(*                                                                         *)
(* Numbers.  A JavaScript number is carried as a fixed-point integer with  *)
(* three decimals (FP = 1000 stands for 1.0); products and quotients       *)
(* truncate toward zero, which stands for the rounding of the double.  The *)
(* non-finite doubles NaN, +Infinity, -Infinity and the value `undefined`  *)
(* read from a missing array slot are four reserved integers, and every    *)
(* arithmetic operator propagates them as IEEE-754 does.  Math.exp is the  *)
(* monotone function ExpFP, exact on whole units (ExpFP(x+FP) = 2*ExpFP(x))*)
(* and linear in between; Math.sqrt is the integer square root.            *)
(***************************************************************************)
EXTENDS Integers, Sequences, FiniteSets, TLC

FP == 1000

NaN == 2000000001
PInf == 2000000000
NInf == -2000000000
Undefined == 2000000002

\* ---------------------------------------------------------------- bounds
MaxSims == 2
MaxDays == 2
\* largest number of simulated days in one call (paths times days)
MaxSteps == 4

\* ------------------------------------------------------------- arithmetic
Abs(x) == IF x < 0 THEN -x ELSE x

IsNaN(x) == x = NaN \/ x = Undefined

IsFiniteNum(x) == ~IsNaN(x) /\ x # PInf /\ x # NInf

\* integer quotient truncated toward zero, b # 0
TDiv(a, b) ==
  IF (a >= 0) = (b > 0) THEN Abs(a) \div Abs(b) ELSE -(Abs(a) \div Abs(b))

FNeg(a) ==
  IF IsNaN(a) THEN NaN
  ELSE IF a = PInf THEN NInf
  ELSE IF a = NInf THEN PInf
  ELSE -a

FAdd(a, b) ==
  IF IsNaN(a) \/ IsNaN(b) THEN NaN
  ELSE IF a = PInf THEN (IF b = NInf THEN NaN ELSE PInf)
  ELSE IF a = NInf THEN (IF b = PInf THEN NaN ELSE NInf)
  ELSE IF b = PInf \/ b = NInf THEN b
  ELSE a + b

FSub(a, b) == FAdd(a, FNeg(b))

FMul(a, b) ==
  IF IsNaN(a) \/ IsNaN(b) THEN NaN
  ELSE IF ~IsFiniteNum(a) \/ ~IsFiniteNum(b)
    THEN (IF a = 0 \/ b = 0 THEN NaN
          ELSE IF (a > 0) = (b > 0) THEN PInf ELSE NInf)
  ELSE LET ah == Abs(a) \div FP
           al == Abs(a) % FP
           bh == Abs(b) \div FP
           bl == Abs(b) % FP
           m == ah * bh * FP + ah * bl + al * bh + (al * bl) \div FP
       IN IF (a >= 0) = (b >= 0) THEN m ELSE -m

FDiv(a, b) ==
  IF IsNaN(a) \/ IsNaN(b) THEN NaN
  ELSE IF ~IsFiniteNum(a)
    THEN (IF ~IsFiniteNum(b) THEN NaN
          ELSE IF (a > 0) = (b >= 0) THEN PInf ELSE NInf)
  ELSE IF ~IsFiniteNum(b) THEN 0
  ELSE IF b = 0
    THEN (IF a = 0 THEN NaN ELSE IF a > 0 THEN PInf ELSE NInf)
  ELSE LET q == Abs(a) \div Abs(b)
           r == Abs(a) % Abs(b)
           m == q * FP + (r * FP) \div Abs(b)
       IN IF (a >= 0) = (b > 0) THEN m ELSE -m

\* a < b on doubles: false as soon as one side is NaN
FLess(a, b) == ~IsNaN(a) /\ ~IsNaN(b) /\ a < b

IntToF(n) == n * FP

RECURSIVE SqrtSearch(_, _, _)
SqrtSearch(n, lo, hi) ==
  IF lo >= hi THEN lo
  ELSE LET mid == (lo + hi + 1) \div 2
       IN IF mid * mid <= n THEN SqrtSearch(n, mid, hi)
          ELSE SqrtSearch(n, lo, mid - 1)

\* largest r with r*r <= n, 0 <= n < 2^31
ISqrt(n) == SqrtSearch(n, 0, 46340)

\* Math.sqrt
FSqrt(a) ==
  IF IsNaN(a) \/ a = NInf THEN NaN
  ELSE IF a = PInf THEN PInf
  ELSE IF a < 0 THEN NaN
  ELSE ISqrt(a * FP)

RECURSIVE Pow2(_)
Pow2(k) == IF k <= 0 THEN 1 ELSE 2 * Pow2(k - 1)

\* Math.exp
ExpFP(x) ==
  IF IsNaN(x) THEN NaN
  ELSE IF x = PInf THEN PInf
  ELSE IF x = NInf THEN 0
  ELSE LET q == x \div FP
           r == x % FP
       IN IF q >= 0 THEN Pow2(q) * (FP + r)
          ELSE IF q < -30 THEN 0
          ELSE (FP + r) \div Pow2(-q)

\* the exponent q of the largest power of two with 2^q <= n / FP, n >= FP
RECURSIVE LogFloor(_)
LogFloor(n) == IF n < 2 * FP THEN 0 ELSE 1 + LogFloor(n \div 2)

\* the least k with n * 2^k >= FP, 0 < n
RECURSIVE LogCeil(_)
LogCeil(n) == IF n >= FP THEN 0 ELSE 1 + LogCeil(2 * n)

\* Math.log, the inverse of ExpFP
LnFP(x) ==
  IF IsNaN(x) \/ x = NInf THEN NaN
  ELSE IF x = PInf THEN PInf
  ELSE IF x < 0 THEN NaN
  ELSE IF x = 0 THEN NInf
  ELSE IF x >= FP
    THEN LET q == LogFloor(x) IN q * FP + (x \div Pow2(q) - FP)
  ELSE LET k == LogCeil(x) IN (x * Pow2(k) - FP) - k * FP

\* Math.round in place of Math.floor
RoundMul(n, p) == (n * p + FP \div 2) \div FP

\* Math.floor(n * p) for a count n >= 0 and a fraction p
FloorMul(n, p) == (n * p) \div FP

\* arr[i] with the 0-based index of the source
At(s, i) == IF i + 1 \in DOMAIN s THEN s[i + 1] ELSE Undefined

\* arr.reduce((sum, x) => sum + x, 0)
RECURSIVE FSum(_)
FSum(s) == IF s = <<>> THEN 0 ELSE FAdd(FSum(SubSeq(s, 1, Len(s) - 1)), s[Len(s)])

\* Math.max(...arr) and Math.min(...arr)
RECURSIVE MathMax(_)
MathMax(s) ==
  IF s = <<>> THEN NInf
  ELSE LET m == MathMax(Tail(s))
       IN IF IsNaN(Head(s)) \/ IsNaN(m) THEN NaN
          ELSE IF Head(s) > m THEN Head(s) ELSE m

RECURSIVE MathMin(_)
MathMin(s) ==
  IF s = <<>> THEN PInf
  ELSE LET m == MathMin(Tail(s))
       IN IF IsNaN(Head(s)) \/ IsNaN(m) THEN NaN
          ELSE IF Head(s) < m THEN Head(s) ELSE m

\* arr.sort((a, b) => a - b): stable ascending insertion
RECURSIVE InsertAsc(_, _)
InsertAsc(s, x) ==
  IF s = <<>> THEN <<x>>
  ELSE IF FLess(x, Head(s)) THEN <<x>> \o s
  ELSE <<Head(s)>> \o InsertAsc(Tail(s), x)

\* a sort that leaves the array as it was passed
SortSkipped(s) == s

RECURSIVE SortAsc(_)
SortAsc(s) ==
  IF s = <<>> THEN <<>>
  ELSE InsertAsc(SortAsc(SubSeq(s, 1, Len(s) - 1)), s[Len(s)])

\* arr.filter(x => x > bound).length
CountAbove(s, bound) == Cardinality({i \in DOMAIN s : FLess(bound, s[i])})

\* ------------------------------------------- single-asset simulation state
VARIABLES
  impl,         \* "plain": src/src/lib/monteCarlo.ts, "jump": src/unnamed/part_014
  params,       \* SimulationParams of the call
  pc,           \* position in runMonteCarloSimulation
  sim,          \* loop variable sim
  day,          \* loop variable day
  price,        \* local price
  path,         \* local path
  paths,        \* paths
  finalPrices,  \* finalPrices
  result,       \* the returned SimulationResults, NoResult before the return
  randomValues  \* the values the random source returned to the call, in order

\* ------------------------------------- statistics functions applied alone
VARIABLES
  statIn,       \* [finalPrices, currentPrice, confidence, paths] handed over
  statOut       \* what the function returned, NoResult before the call

\* ------------------------------------------------ portfolio simulation state
VARIABLES
  portfolioParams,    \* PortfolioParams of the call
  portfolioPc,        \* position in runPortfolioSimulation
  assetData,          \* assetData
  initialValue,       \* initialValue
  correlations,       \* correlations
  pSim,               \* loop variable sim
  pDay,               \* loop variable day
  portfolioPath,      \* local portfolioPath
  currentAssetPaths,  \* local currentAssetPaths, keyed by ticker
  portfolioPaths,     \* portfolioPaths
  finalValues,        \* finalValues
  assetPaths,         \* assetPaths, keyed by ticker
  portfolioResult,    \* the resolved PortfolioResults, NoResult before
  pRandomValues       \* the values randomNormal() returned to the day loop

\* ------------------------------------------------------- options library
VARIABLES
  optIn,        \* the call: [op, params, ...] with the arguments of op
  optOut,       \* what the call returned, NoResult before the return
  optPc,        \* position in impliedVolatility
  ivVol,        \* local vol of impliedVolatility
  ivIter        \* loop variable i of impliedVolatility

\* --------------------------------------------------------- randomNormal
VARIABLES
  rnPc,         \* position in randomNormal
  rnU,          \* local u
  rnV,          \* local v
  rnCalls,      \* number of Math.random() calls made so far
  rnOut         \* the returned value, NoResult before the return

\* ------------------------------------------- calls of the pure functions
VARIABLES
  libIn,        \* the call: [op, ...] with the arguments of op
  libOut        \* what the call returned, NoResult before the return

\* ------------------------------------------------------- runBacktest
VARIABLES
  btIn,           \* [strategy, initialCapital, commission, slippage, bars]
  btPc,           \* position in runBacktest
  btData,         \* the closes of historicalData generated so far
  btBar,          \* loop variable i
  btCash,         \* local cash
  btPosition,     \* local position: <<>> for undefined, else <<Position>>
  btPeak,         \* local peak
  btTrades,       \* local trades
  btSignals,      \* local signals
  btValues,       \* local portfolioValues
  btOut           \* the returned BacktestResult, NoResult before the return

\* ------------------------------------------------------ scenario store
VARIABLES
  stored,       \* localStorage item 'monte_carlo_scenarios': a string or null
  storeLog      \* the calls made so far with what each returned

NoResult == [returned |-> FALSE]

simVars ==
  <<impl, params, pc, sim, day, price, path, paths, finalPrices, result,
    randomValues>>
statVars == <<statIn, statOut>>
portVars ==
  <<portfolioParams, portfolioPc, assetData, initialValue, correlations, pSim,
    pDay, portfolioPath, currentAssetPaths, portfolioPaths, finalValues,
    assetPaths, portfolioResult, pRandomValues>>
optVars == <<optIn, optOut, optPc, ivVol, ivIter>>
rndVars == <<rnPc, rnU, rnV, rnCalls, rnOut>>
libVars == <<libIn, libOut>>
btVars ==
  <<btIn, btPc, btData, btBar, btCash, btPosition, btPeak, btTrades, btSignals,
    btValues, btOut>>
storeVars == <<stored, storeLog>>
restVars == <<libVars, btVars, storeVars>>
vars == <<simVars, statVars, portVars, optVars, rndVars, restVars>>

\* what the steps of one function leave alone
notSimVars == <<statVars, portVars, optVars, rndVars, restVars>>
notStatVars == <<simVars, portVars, optVars, rndVars, restVars>>
notPortVars == <<simVars, statVars, optVars, rndVars, restVars>>
notOptVars == <<simVars, statVars, portVars, rndVars, restVars>>
notRndVars == <<simVars, statVars, portVars, optVars, restVars>>
firstVars == <<simVars, statVars, portVars, optVars, rndVars>>
notLibVars == <<firstVars, btVars, storeVars>>
notBtVars == <<firstVars, libVars, storeVars>>
notStoreVars == <<firstVars, libVars, btVars>>

\* ---------------------------------------------------- inputs of the calls
CurrentPrices == {100000, 0, -50000}
ExpectedReturns == {0, 252000}
Volatilities == {0, 16000}
TimeHorizons == -1 .. MaxDays
NumSimulations == 0 .. MaxSims

\* values randomNormal() may return, and values Math.random() may return
Normals == {-1000, 1000}
Uniforms == {10, 500}

SimulationParams ==
  {p \in [currentPrice : CurrentPrices, expectedReturn : ExpectedReturns,
           volatility : Volatilities, timeHorizon : TimeHorizons,
           numSimulations : NumSimulations] :
     p.numSimulations * p.timeHorizon <= MaxSteps}

\* ------------------------------------------------------ daily parameters
TradingDays == 252

\* x * dt with dt = 1 / 252
TimesDt(x) == FDiv(x, IntToF(TradingDays))

\* Math.sqrt(dt)
SqrtDt == ISqrt((FP * FP) \div TradingDays)

drift(p) ==
  TimesDt(FSub(p.expectedReturn, FMul(500, FMul(p.volatility, p.volatility))))

\* a diffusion term that forgets the volatility factor
diffusionUnscaled(p) == SqrtDt

diffusion(p) == FMul(p.volatility, SqrtDt)

jumpIntensity == 20
jumpMean == -50
jumpStd == 100

\* priceChange of one day of the plain implementation
PlainChange(p, randomShock) == FAdd(drift(p), FMul(diffusion(p), randomShock))

\* priceChange of one day of the jump-enhanced implementation
JumpChange(p, randomShock, u, jumpShock) ==
  LET priceChange == FAdd(drift(p), FMul(diffusion(p), randomShock))
  IN IF u < jumpIntensity
       THEN FAdd(priceChange, FAdd(jumpMean, FMul(jumpStd, jumpShock)))
       ELSE priceChange

\* the statistics block: finalPrices is already sorted in place
SimulationStatistics(sorted, currentPrice) ==
  [averageEndingPrice |-> FDiv(FSum(sorted), IntToF(Len(sorted))),
   probabilityOfGain |->
     FDiv(IntToF(CountAbove(sorted, currentPrice)), IntToF(Len(sorted))),
   percentile5 |-> At(sorted, FloorMul(Len(sorted), 50)),
   percentile95 |-> At(sorted, FloorMul(Len(sorted), 950)),
   maxPrice |-> MathMax(sorted),
   minPrice |-> MathMin(sorted)]

\* ---------------------------------------------- runMonteCarloSimulation
NoParams ==
  [currentPrice |-> 0, expectedReturn |-> 0, volatility |-> 0,
   timeHorizon |-> 0, numSimulations |-> 0]

NoStatIn == [finalPrices |-> <<>>, currentPrice |-> 0, confidence |-> 0]

\* no single-asset call is in progress
SimIdle ==
  /\ impl = "plain"
  /\ params = NoParams
  /\ pc = "idle"
  /\ sim = 0
  /\ day = 0
  /\ price = 0
  /\ path = <<>>
  /\ paths = <<>>
  /\ finalPrices = <<>>
  /\ result = NoResult
  /\ randomValues = <<>>

\* no statistics function is applied on its own
StatIdle ==
  /\ statIn = NoStatIn
  /\ statOut = NoResult

NoPortfolioParams ==
  [assets |-> <<>>, timeHorizon |-> 0, numSimulations |-> 0,
   correlationMethod |-> "historical", customCorrelations |-> <<>>]

NoOptIn == [op |-> "none"]

\* no call into the options library is in progress
OptIdle ==
  /\ optIn = NoOptIn
  /\ optOut = NoResult
  /\ optPc = "idle"
  /\ ivVol = 0
  /\ ivIter = 0

\* no pure function is called
LibIdle ==
  /\ libIn = [op |-> "none"]
  /\ libOut = NoResult

\* no backtest runs
BtIdle ==
  /\ btIn = [op |-> "none"]
  /\ btPc = "idle"
  /\ btData = <<>>
  /\ btBar = 0
  /\ btCash = 0
  /\ btPosition = <<>>
  /\ btPeak = 0
  /\ btTrades = <<>>
  /\ btSignals = <<>>
  /\ btValues = <<>>
  /\ btOut = NoResult

\* the scenario store is not used
StoreIdle ==
  /\ stored = [kind |-> "null"]
  /\ storeLog = <<>>

RestIdle == LibIdle /\ BtIdle /\ StoreIdle

\* randomNormal is not running
NoRandomNormal ==
  /\ rnPc = "idle"
  /\ rnU = 0
  /\ rnV = 0
  /\ rnCalls = 0
  /\ rnOut = NoResult

\* no randomNormal call is in progress, nor any of the calls above
RndIdle == RestIdle /\ NoRandomNormal

\* no portfolio call is in progress
PortIdle ==
  /\ portfolioParams = NoPortfolioParams
  /\ portfolioPc = "idle"
  /\ assetData = <<>>
  /\ initialValue = 0
  /\ correlations = <<>>
  /\ pSim = 0
  /\ pDay = 0
  /\ portfolioPath = <<>>
  /\ currentAssetPaths = <<>>
  /\ portfolioPaths = <<>>
  /\ finalValues = <<>>
  /\ assetPaths = <<>>
  /\ portfolioResult = NoResult
  /\ pRandomValues = <<>>

Init ==
  /\ StatIdle
  /\ PortIdle
  /\ OptIdle
  /\ RndIdle
  /\ impl \in {"plain", "jump"}
  /\ params \in SimulationParams
  /\ pc = "simLoop"
  /\ sim = 0
  /\ day = 0
  /\ price = 0
  /\ path = <<>>
  /\ paths = <<>>
  /\ finalPrices = <<>>
  /\ result = NoResult
  /\ randomValues = <<>>

\* a path that starts empty instead of at the initial price
BeginPathEmpty ==
  /\ pc = "simLoop"
  /\ sim < params.numSimulations
  /\ path' = <<>>
  /\ price' = params.currentPrice
  /\ day' = 1
  /\ pc' = "dayLoop"
  /\ UNCHANGED <<impl, params, sim, paths, finalPrices, result, randomValues,
                 notSimVars>>

\* for (sim ...) { const path = [currentPrice]; let price = currentPrice;
BeginPath ==
  /\ pc = "simLoop"
  /\ sim < params.numSimulations
  /\ path' = <<params.currentPrice>>
  /\ price' = params.currentPrice
  /\ day' = 1
  /\ pc' = "dayLoop"
  /\ UNCHANGED <<impl, params, sim, paths, finalPrices, result, randomValues,
                 notSimVars>>

\* one iteration of the day loop, plain GBM
StepDayPlain ==
  /\ pc = "dayLoop"
  /\ impl = "plain"
  /\ day <= params.timeHorizon
  /\ \E randomShock \in Normals :
       LET newPrice == FMul(price, ExpFP(PlainChange(params, randomShock)))
       IN /\ price' = newPrice
          /\ path' = Append(path, newPrice)
          /\ randomValues' = Append(randomValues, randomShock)
  /\ day' = day + 1
  /\ UNCHANGED <<impl, params, pc, sim, paths, finalPrices, result, notSimVars>>

\* a day of the jump-enhanced loop whose jump test reads a number that is not
\* one of the values the random source returned
StepDayJumpHiddenState ==
  /\ pc = "dayLoop"
  /\ impl = "jump"
  /\ day <= params.timeHorizon
  /\ \E randomShock \in Normals, u \in Uniforms, jumpShock \in Normals,
        hidden \in Uniforms :
       LET newPrice ==
             FMul(price,
                  ExpFP(JumpChange(params, randomShock, hidden, jumpShock)))
       IN /\ price' = newPrice
          /\ path' = Append(path, newPrice)
          /\ randomValues' =
               randomValues \o <<randomShock, u>>
               \o (IF u < jumpIntensity THEN <<jumpShock>> ELSE <<>>)
  /\ day' = day + 1
  /\ UNCHANGED <<impl, params, pc, sim, paths, finalPrices, result, notSimVars>>

\* one iteration of the day loop, GBM with jumps
StepDayJump ==
  /\ pc = "dayLoop"
  /\ impl = "jump"
  /\ day <= params.timeHorizon
  /\ \E randomShock \in Normals, u \in Uniforms, jumpShock \in Normals :
       LET newPrice ==
             FMul(price, ExpFP(JumpChange(params, randomShock, u, jumpShock)))
       IN /\ price' = newPrice
          /\ path' = Append(path, newPrice)
          /\ randomValues' =
               randomValues \o <<randomShock, u>>
               \o (IF u < jumpIntensity THEN <<jumpShock>> ELSE <<>>)
  /\ day' = day + 1
  /\ UNCHANGED <<impl, params, pc, sim, paths, finalPrices, result, notSimVars>>

\* paths.push(path); finalPrices.push(price); sim++
EndPath ==
  /\ pc = "dayLoop"
  /\ day > params.timeHorizon
  /\ paths' = Append(paths, path)
  /\ finalPrices' = Append(finalPrices, price)
  /\ sim' = sim + 1
  /\ pc' = "simLoop"
  /\ UNCHANGED <<impl, params, day, price, path, result, randomValues,
                 notSimVars>>

\* finalPrices.sort(...); statistics; return
Finish ==
  /\ pc = "simLoop"
  /\ sim >= params.numSimulations
  /\ LET sorted == SortAsc(finalPrices)
     IN /\ finalPrices' = sorted
        /\ result' = [returned |-> TRUE,
                      paths |-> paths,
                      finalPrices |-> sorted,
                      statistics |->
                        SimulationStatistics(sorted, params.currentPrice)]
  /\ pc' = "returned"
  /\ UNCHANGED <<impl, params, sim, day, price, path, paths, randomValues,
                 notSimVars>>

Next == BeginPath \/ StepDayPlain \/ StepDayJump \/ EndPath \/ Finish

Spec == Init /\ [][Next]_vars

\* ------------------------------------------------ single-asset properties
\* every path the call holds: the finished ones and the one being built
AllPaths == {paths[i] : i \in DOMAIN paths} \cup (IF pc = "dayLoop" THEN {path} ELSE {})

\* C1: a call with numSimulations >= 1 and timeHorizon >= 1 returns exactly
\* numSimulations paths, each of length timeHorizon + 1 and each starting at
\* currentPrice.
C1_PathShape ==
  (result.returned /\ params.numSimulations >= 1 /\ params.timeHorizon >= 1) =>
    /\ Len(result.paths) = params.numSimulations
    /\ \A i \in DOMAIN result.paths :
         /\ Len(result.paths[i]) = params.timeHorizon + 1
         /\ result.paths[i][1] = params.currentPrice

C1_Witness ==
  /\ result.returned
  /\ params.numSimulations >= 2
  /\ params.timeHorizon >= 2
  /\ params.volatility # 0

\* currentPrice * e^(drift * d), as d successive factors e^drift
RECURSIVE GeomValue(_, _, _)
GeomValue(currentPrice, dr, d) ==
  IF d <= 0 THEN currentPrice
  ELSE FMul(GeomValue(currentPrice, dr, d - 1), ExpFP(dr))

Deterministic(pth) ==
  \A k \in DOMAIN pth : pth[k] = GeomValue(params.currentPrice, drift(params), k - 1)

\* C2 as stated: with volatility = 0 (and a valid currentPrice > 0) every
\* path of either implementation equals currentPrice * e^(drift * day) at
\* each day index.
C2_Original ==
  (params.volatility = 0 /\ params.currentPrice > 0) => \A pth \in AllPaths : Deterministic(pth)

\* the factors one day of the jump-enhanced implementation can apply when
\* the diffusion term vanishes: e^drift, or e^(drift + jumpMean + jumpStd*Z')
JumpFactors ==
  {ExpFP(drift(params))} \cup
  {ExpFP(FAdd(drift(params), FAdd(jumpMean, FMul(jumpStd, z)))) : z \in Normals}

\* C2 amended: with volatility = 0 the plain implementation yields
\* currentPrice * e^(drift * day) whatever the draws are; the jump-enhanced
\* implementation starts at currentPrice and multiplies each day by e^drift
\* or, when a jump fires, by e^(drift + jumpMean + jumpStd*Z'), independently
\* of the diffusion draw.
C2_Amended ==
  params.volatility = 0 =>
    \A pth \in AllPaths :
      /\ impl = "plain" => Deterministic(pth)
      /\ impl = "jump" =>
           /\ pth[1] = params.currentPrice
           /\ \A k \in 2 .. Len(pth) :
                \E f \in JumpFactors : pth[k] = FMul(pth[k - 1], f)

C2_Witness ==
  /\ result.returned
  /\ impl = "plain"
  /\ params.volatility = 0
  /\ params.expectedReturn # 0
  /\ params.currentPrice > 0
  /\ params.timeHorizon >= 2
  /\ params.numSimulations >= 1

\* C3 as stated: a call with currentPrice <= 0 or timeHorizon <= 0 is
\* rejected before any path is generated and never returns a result.
C3_Rejects ==
  (params.currentPrice <= 0 \/ params.timeHorizon <= 0) =>
    /\ ~result.returned
    /\ paths = <<>>
    /\ pc # "dayLoop"

\* --------------------------------------------------- statistics functions
MaxSmallLen == 3
MaxBigLen == 21

\* arr.map(v => (v - initial) / initial)
ReturnsOf(values, initial) ==
  [i \in DOMAIN values |-> FDiv(FSub(values[i], initial), initial)]

\* arr.slice(0, end)
SliceTo(s, end) ==
  SubSeq(s, 1, IF end > Len(s) THEN Len(s) ELSE IF end < 0 THEN 0 ELSE end)

\* arr.reduce((sum, x) => sum + (x - mean) ** 2, 0)
SumSqDev(s, centre) ==
  FSum([i \in DOMAIN s |-> LET d == FSub(s[i], centre) IN FMul(d, d)])

\* arr.filter(x => x < 0)
RECURSIVE NegativeOnly(_)
NegativeOnly(s) ==
  IF s = <<>> THEN <<>>
  ELSE IF FLess(Head(s), 0) THEN <<Head(s)>> \o NegativeOnly(Tail(s))
  ELSE NegativeOnly(Tail(s))

\* calculateRiskMetrics(finalPrices, currentPrice, confidence); skewness and
\* kurtosis are not carried
calculateRiskMetrics(prices, currentPrice, confidence) ==
  LET sortedPrices == SortAsc(prices)
      returns == ReturnsOf(prices, currentPrice)
      varIndex == FloorMul(Len(sortedPrices), confidence)
      worstReturns == SliceTo(returns, varIndex + 1)
      averageReturn == FDiv(FSum(returns), IntToF(Len(returns)))
      returnStd ==
        FSqrt(FDiv(SumSqDev(returns, averageReturn), IntToF(Len(returns))))
      negativeReturns == NegativeOnly(returns)
      downsideStd ==
        IF Len(negativeReturns) > 0
          THEN FSqrt(FDiv(SumSqDev(negativeReturns, 0),
                          IntToF(Len(negativeReturns))))
          ELSE 0
  IN [valueAtRisk |-> FSub(currentPrice, At(sortedPrices, varIndex)),
      expectedShortfall |->
        FDiv(FSum(worstReturns), IntToF(Len(worstReturns))),
      sharpeRatio |-> FDiv(FSub(averageReturn, 30), returnStd),
      sortinoRatio |->
        IF FLess(0, downsideStd)
          THEN FDiv(FSub(averageReturn, 30), downsideStd)
          ELSE 0,
      maxDrawdown |->
        FDiv(FSub(currentPrice, MathMin(sortedPrices)), currentPrice),
      volatility |-> returnStd]

\* the inner forEach of calculateMaxDrawdown: [peak, maxDD] after the
\* first k values of the path
RECURSIVE DrawdownScan(_, _)
DrawdownScan(pth, k) ==
  IF k = 0 THEN [peak |-> At(pth, 0), maxDD |-> 0]
  ELSE LET before == DrawdownScan(pth, k - 1)
           value == pth[k]
           peak == IF FLess(before.peak, value) THEN value ELSE before.peak
           drawdown == FDiv(FSub(peak, value), peak)
       IN [peak |-> peak,
           maxDD |-> IF FLess(before.maxDD, drawdown) THEN drawdown
                     ELSE before.maxDD]

RECURSIVE calculateMaxDrawdown(_)
calculateMaxDrawdown(pths) ==
  IF pths = <<>> THEN 0
  ELSE LET maxDrawdown == calculateMaxDrawdown(SubSeq(pths, 1, Len(pths) - 1))
           last == pths[Len(pths)]
           maxDD == DrawdownScan(last, Len(last)).maxDD
       IN IF FLess(maxDrawdown, maxDD) THEN maxDD ELSE maxDrawdown

\* the statistics of runPortfolioSimulation
PortfolioStatistics(values, initial) ==
  LET sortedFinalValues == SortAsc(values)
      n == Len(values)
      returns == ReturnsOf(values, initial)
      averageReturn == FDiv(FSum(returns), IntToF(Len(returns)))
      returnStd ==
        FSqrt(FDiv(SumSqDev(returns, averageReturn), IntToF(Len(returns))))
  IN [averageEndingValue |-> FDiv(FSum(values), IntToF(n)),
      probabilityOfGain |->
        FDiv(IntToF(CountAbove(values, initial)), IntToF(n)),
      percentile5 |-> At(sortedFinalValues, FloorMul(n, 50)),
      percentile95 |-> At(sortedFinalValues, FloorMul(n, 950)),
      maxValue |-> MathMax(values),
      minValue |-> MathMin(values),
      expectedReturn |-> FMul(averageReturn, IntToF(TradingDays)),
      volatility |-> FMul(returnStd, FSqrt(IntToF(TradingDays))),
      sharpeRatio |->
        FDiv(FMul(averageReturn, IntToF(TradingDays)),
             FMul(returnStd, FSqrt(IntToF(TradingDays))))]

\* the riskMetrics of runPortfolioSimulation
PortfolioRiskMetrics(values, initial, pths) ==
  LET sortedFinalValues == SortAsc(values)
      n == Len(values)
  IN [var95 |-> FSub(initial, At(sortedFinalValues, FloorMul(n, 50))),
      var99 |-> FSub(initial, At(sortedFinalValues, FloorMul(n, 10))),
      expectedShortfall |->
        FSub(initial,
             FDiv(FSum(SliceTo(sortedFinalValues, FloorMul(n, 50))),
                  IntToF(FloorMul(n, 50)))),
      maxDrawdown |-> calculateMaxDrawdown(pths)]

\* ----------------------------------------------------------- RiskManager
\* Math.abs
FAbs(x) ==
  IF IsNaN(x) THEN NaN
  ELSE IF x = PInf \/ x = NInf THEN PInf
  ELSE Abs(x)

\* x || 0
OrZero(x) == IF IsNaN(x) \/ x = 0 THEN 0 ELSE x

\* returns.filter(r => r <= bound)
RECURSIVE FilterLeq(_, _)
FilterLeq(s, bound) ==
  IF s = <<>> THEN <<>>
  ELSE IF ~IsNaN(Head(s)) /\ ~IsNaN(bound) /\ Head(s) <= bound
    THEN <<Head(s)>> \o FilterLeq(Tail(s), bound)
  ELSE FilterLeq(Tail(s), bound)

RiskManager_calculateVaR(returns, confidence) ==
  LET sortedReturns == SortAsc(returns)
      index == FloorMul(Len(returns), confidence)
  IN FAbs(OrZero(At(sortedReturns, index)))

RiskManager_calculateCVaR(returns, confidence) ==
  LET var95 == RiskManager_calculateVaR(returns, confidence)
      worstReturns == FilterLeq(returns, FNeg(var95))
  IN IF Len(worstReturns) > 0
       THEN FAbs(FDiv(FSum(worstReturns), IntToF(Len(worstReturns))))
       ELSE 0

\* the loop of RiskManager.calculateMaxDrawdown after the first k returns
RECURSIVE RiskManagerDrawdownScan(_, _)
RiskManagerDrawdownScan(returns, k) ==
  IF k = 0 THEN [peak |-> 0, maxDD |-> 0, cumulative |-> FP]
  ELSE LET before == RiskManagerDrawdownScan(returns, k - 1)
           cumulative == FMul(before.cumulative, FAdd(FP, returns[k]))
           peak == IF FLess(before.peak, cumulative) THEN cumulative
                   ELSE before.peak
           drawdown == FDiv(FSub(peak, cumulative), peak)
       IN [peak |-> peak,
           maxDD |-> IF FLess(before.maxDD, drawdown) THEN drawdown
                     ELSE before.maxDD,
           cumulative |-> cumulative]

RiskManager_calculateMaxDrawdown(returns) ==
  RiskManagerDrawdownScan(returns, Len(returns)).maxDD

RiskManager_calculateVolatility(returns, periods) ==
  LET mean == FDiv(FSum(returns), IntToF(Len(returns)))
      variance == FDiv(SumSqDev(returns, mean), IntToF(Len(returns) - 1))
  IN FSqrt(FMul(variance, IntToF(periods)))

RiskManager_calculateSharpeRatio(returns, riskFreeRate, periods) ==
  LET meanReturn ==
        FMul(FDiv(FSum(returns), IntToF(Len(returns))), IntToF(periods))
      volatility == RiskManager_calculateVolatility(returns, periods)
  IN IF FLess(0, volatility)
       THEN FDiv(FSub(meanReturn, riskFreeRate), volatility)
       ELSE 0

\* RiskManager.calculateRiskMetrics(assetReturns) without a benchmark; the
\* sortino, calmar and benchmark figures are not carried
RiskManager_calculateRiskMetrics(assetReturns) ==
  [var |-> RiskManager_calculateVaR(assetReturns, 50),
   cvar |-> RiskManager_calculateCVaR(assetReturns, 50),
   maxDrawdown |-> RiskManager_calculateMaxDrawdown(assetReturns),
   volatility |-> RiskManager_calculateVolatility(assetReturns, TradingDays),
   sharpeRatio |->
     RiskManager_calculateSharpeRatio(assetReturns, 20, TradingDays)]

\* ------------------------------- the statistics functions applied alone
StatValues == {90000, 100000, 103000, 120000}
StatInitial == 100000
Confidences == {50, 500}

SmallArrays == UNION {[1 .. n -> StatValues] : n \in 0 .. MaxSmallLen}

\* long arrays: one value everywhere but at one position
BigArrays ==
  UNION {{[i \in 1 .. n |-> IF i = t[1] THEN t[2] ELSE t[3]] :
            t \in {u \in (1 .. n) \X StatValues \X StatValues : u[2] # u[3]}} :
         n \in 20 .. MaxBigLen}

StatInputs ==
  [finalPrices : SmallArrays \cup BigArrays,
   currentPrice : {StatInitial}, confidence : Confidences]

InitStats ==
  /\ SimIdle
  /\ PortIdle
  /\ OptIdle
  /\ RndIdle
  /\ statIn \in StatInputs
  /\ statOut = NoResult

\* the statistics block of runMonteCarloSimulation on statIn.finalPrices
Summarize ==
  /\ ~statOut.returned
  /\ LET sorted == SortAsc(statIn.finalPrices)
     IN statOut' = [returned |-> TRUE, kind |-> "simulation",
                    finalPrices |-> sorted,
                    statistics |->
                      SimulationStatistics(sorted, statIn.currentPrice)]
  /\ UNCHANGED <<statIn, notStatVars>>

\* calculateRiskMetrics(statIn.finalPrices, currentPrice, confidence)
RiskMetrics ==
  /\ ~statOut.returned
  /\ statOut' = [returned |-> TRUE, kind |-> "risk",
                 riskMetrics |->
                   calculateRiskMetrics(statIn.finalPrices,
                                        statIn.currentPrice,
                                        statIn.confidence)]
  /\ UNCHANGED <<statIn, notStatVars>>

\* the statistics and riskMetrics of runPortfolioSimulation for one-day
\* portfolio paths ending in statIn.finalPrices
PortfolioSummarize ==
  /\ ~statOut.returned
  /\ LET oneDayPaths ==
           [i \in DOMAIN statIn.finalPrices |->
              <<statIn.currentPrice, statIn.finalPrices[i]>>]
     IN statOut' = [returned |-> TRUE, kind |-> "portfolio",
                    statistics |->
                      PortfolioStatistics(statIn.finalPrices,
                                          statIn.currentPrice),
                    riskMetrics |->
                      PortfolioRiskMetrics(statIn.finalPrices,
                                           statIn.currentPrice,
                                           oneDayPaths)]
  /\ UNCHANGED <<statIn, notStatVars>>

\* RiskManager.calculateRiskMetrics on the returns of statIn.finalPrices
\* relative to statIn.currentPrice
RiskManagerMetrics ==
  /\ ~statOut.returned
  /\ statOut' = [returned |-> TRUE, kind |-> "riskManager",
                 riskMetrics |->
                   RiskManager_calculateRiskMetrics(
                     ReturnsOf(statIn.finalPrices, statIn.currentPrice))]
  /\ UNCHANGED <<statIn, notStatVars>>

NextStats == Summarize \/ RiskMetrics \/ PortfolioSummarize \/ RiskManagerMetrics

SpecStats == InitStats /\ [][NextStats]_vars

\* --------------------------------------------------- statistics properties
StatN == Len(statIn.finalPrices)

\* v is what an ascending sort of s holds at 0-based index k: v occurs in s,
\* at most k elements are smaller and more than k elements are not larger
IsRank(v, k, s) ==
  /\ \E i \in DOMAIN s : s[i] = v
  /\ Cardinality({i \in DOMAIN s : s[i] < v}) <= k
  /\ Cardinality({i \in DOMAIN s : s[i] <= v}) > k

SummaryReturned ==
  statOut.returned /\ statOut.kind \in {"simulation", "portfolio"}

\* C7: for N >= 1 terminal values percentile5 and percentile95 are the
\* elements at index floor(0.05 N) and floor(0.95 N) of the ascending sort,
\* and both indices lie in 0 .. N-1.
C7_NearestRank ==
  (SummaryReturned /\ StatN >= 1) =>
    LET i5 == (5 * StatN) \div 100
        i95 == (95 * StatN) \div 100
    IN /\ i5 \in 0 .. StatN - 1
       /\ i95 \in 0 .. StatN - 1
       /\ IsRank(statOut.statistics.percentile5, i5, statIn.finalPrices)
       /\ IsRank(statOut.statistics.percentile95, i95, statIn.finalPrices)

C7_Witness ==
  /\ statOut.returned
  /\ statOut.kind = "simulation"
  /\ StatN >= 20
  /\ statOut.statistics.percentile5 # statOut.statistics.minPrice
  /\ statIn.finalPrices # statOut.finalPrices

NotAllEqual(s) == \E i, j \in DOMAIN s : s[i] # s[j]

AverageOf(out) ==
  IF out.kind = "simulation" THEN out.statistics.averageEndingPrice
  ELSE out.statistics.averageEndingValue

\* C8 as stated: for N >= 1 values that are not all equal,
\* percentile5 <= average <= percentile95.
C8_Original ==
  (SummaryReturned /\ StatN >= 1 /\ NotAllEqual(statIn.finalPrices)) =>
    /\ statOut.statistics.percentile5 <= AverageOf(statOut)
    /\ AverageOf(statOut) <= statOut.statistics.percentile95

\* C8 amended: for 1 <= N <= 19 values percentile5 <= average <= percentile95
\* (the percentiles are then the minimum and the maximum); for every N >= 1
\* percentile5 <= percentile95 and minimum <= average <= maximum.
C8_Amended ==
  (SummaryReturned /\ StatN >= 1) =>
    LET st == statOut.statistics
        avg == AverageOf(statOut)
        lo == MathMin(statIn.finalPrices)
        hi == MathMax(statIn.finalPrices)
    IN /\ st.percentile5 <= st.percentile95
       /\ lo <= avg /\ avg <= hi
       /\ StatN <= 19 => (st.percentile5 <= avg /\ avg <= st.percentile95)

C8_Witness ==
  /\ SummaryReturned
  /\ StatN >= 2 /\ StatN <= 19
  /\ NotAllEqual(statIn.finalPrices)
  /\ statOut.statistics.percentile5 < AverageOf(statOut)
  /\ AverageOf(statOut) < statOut.statistics.percentile95

\* C9 as stated: probabilityOfGain lies in [0,1] and is the number of
\* terminal values above the initial price divided by the number of
\* simulations, for every numSimulations the function accepts.
C9_ProbabilityOfGain ==
  result.returned =>
    LET p == result.statistics.probabilityOfGain
        gains == {i \in DOMAIN paths :
                    FLess(params.currentPrice, paths[i][Len(paths[i])])}
    IN /\ IsFiniteNum(p)
       /\ 0 <= p /\ p <= FP
       /\ p * params.numSimulations <= Cardinality(gains) * FP
       /\ (p + 1) * params.numSimulations > Cardinality(gains) * FP

\* C10 as stated: for N >= 1 the expected shortfall is the mean return of
\* the values at indices 0 .. floor(confidence N) of the ascending sort,
\* whatever the order of finalPrices, and is a defined number.
C10_ExpectedShortfall ==
  (statOut.returned /\ StatN >= 1) =>
    /\ statOut.kind = "risk" =>
         LET varIndex == (statIn.confidence * StatN) \div FP
             worst == SliceTo(ReturnsOf(SortAsc(statIn.finalPrices),
                                        statIn.currentPrice), varIndex + 1)
         IN statOut.riskMetrics.expectedShortfall =
              FDiv(FSum(worst), IntToF(Len(worst)))
    /\ statOut.kind = "portfolio" =>
         IsFiniteNum(statOut.riskMetrics.expectedShortfall)

\* ------------------------------------------------- portfolio simulation
MaxPSims == 2
MaxPDays == 2
\* largest number of simulated days in one call (paths times days)
MaxPSteps == 4

\* enhancedSampleData of fetchRealStockData
enhancedSampleData ==
  [t \in {"AAPL", "TSLA", "MSFT", "GOOGL", "AMZN", "NVDA", "META", "NFLX",
          "SPY", "QQQ"} |->
     CASE t = "AAPL" -> [currentPrice |-> 175250, expectedReturn |-> 120, volatility |-> 250]
       [] t = "TSLA" -> [currentPrice |-> 245800, expectedReturn |-> 150, volatility |-> 450]
       [] t = "MSFT" -> [currentPrice |-> 378500, expectedReturn |-> 110, volatility |-> 280]
       [] t = "GOOGL" -> [currentPrice |-> 142300, expectedReturn |-> 130, volatility |-> 300]
       [] t = "AMZN" -> [currentPrice |-> 155900, expectedReturn |-> 140, volatility |-> 350]
       [] t = "NVDA" -> [currentPrice |-> 485200, expectedReturn |-> 180, volatility |-> 500]
       [] t = "META" -> [currentPrice |-> 325750, expectedReturn |-> 160, volatility |-> 400]
       [] t = "NFLX" -> [currentPrice |-> 445600, expectedReturn |-> 100, volatility |-> 420]
       [] t = "SPY" -> [currentPrice |-> 445120, expectedReturn |-> 100, volatility |-> 180]
       [] t = "QQQ" -> [currentPrice |-> 385670, expectedReturn |-> 120, volatility |-> 220]]

\* data generated for a ticker the table does not hold: basePrice in
\* [50, 350), expectedReturn in [0.05, 0.25), volatility in [0.15, 0.55)
GeneratedStockData ==
  [currentPrice : {50000, 349000}, expectedReturn : {50}, volatility : {150, 549}]

\* the values fetchRealStockData(ticker) may resolve to
fetchRealStockData(ticker) ==
  IF ticker \in DOMAIN enhancedSampleData
    THEN {enhancedSampleData[ticker]}
    ELSE GeneratedStockData

getSector(ticker) ==
  IF ticker \in {"AAPL", "MSFT", "GOOGL", "AMZN", "TSLA", "NVDA", "META"} THEN "tech"
  ELSE IF ticker \in {"JPM", "BAC", "WFC", "GS", "MS"} THEN "finance"
  ELSE IF ticker \in {"JNJ", "PFE", "UNH", "ABBV"} THEN "healthcare"
  ELSE IF ticker \in {"XOM", "CVX", "COP"} THEN "energy"
  ELSE "tech"

sectorCorrelations ==
  [s1 \in {"tech", "finance", "healthcare", "energy"} |->
    [s2 \in {"tech", "finance", "healthcare", "energy"} |->
      IF s1 = s2 THEN 1000
      ELSE LET pair == {s1, s2}
           IN CASE pair = {"tech", "finance"} -> 300
                [] pair = {"tech", "healthcare"} -> 200
                [] pair = {"tech", "energy"} -> 100
                [] pair = {"finance", "healthcare"} -> 150
                [] pair = {"finance", "energy"} -> 250
                [] pair = {"healthcare", "energy"} -> 100]]

calculateCorrelationMatrix(assets) ==
  [i \in DOMAIN assets |->
    [j \in DOMAIN assets |->
      IF i = j THEN 1000
      ELSE LET c == sectorCorrelations[getSector(assets[i].ticker)]
                                      [getSector(assets[j].ticker)]
           IN IF c = 0 THEN 300 ELSE c]]

\* sum over k < j of L[a][k] * L[b][k], accumulated from 0 in k order
RECURSIVE CholEntry(_, _, _), CholSum(_, _, _, _)
CholSum(matrix, a, b, j) ==
  IF j <= 1 THEN 0
  ELSE FAdd(CholSum(matrix, a, b, j - 1),
            FMul(CholEntry(matrix, a, j - 1), CholEntry(matrix, b, j - 1)))

\* the diagonal term matrix[i][i] - sum whose square root is L[i][i]
DiagonalTerm(matrix, i) == FSub(matrix[i][i], CholSum(matrix, i, i, i))

\* L[i][j] for j <= i as choleskyDecomposition writes it
CholEntry(matrix, i, j) ==
  IF i = j THEN FSqrt(DiagonalTerm(matrix, i))
  ELSE FDiv(FSub(matrix[i][j], CholSum(matrix, i, j, j)),
            CholEntry(matrix, j, j))

\* the factor written into the upper triangle instead of the lower one
choleskyUpper(matrix) ==
  [i \in DOMAIN matrix |->
    [j \in DOMAIN matrix |-> IF i <= j THEN CholEntry(matrix, j, i) ELSE 0]]

choleskyDecomposition(matrix) ==
  [i \in DOMAIN matrix |->
    [j \in DOMAIN matrix |-> IF j <= i THEN CholEntry(matrix, i, j) ELSE 0]]

\* correlatedRandoms[i] after adding the first j products
RECURSIVE CorrelatedSum(_, _, _, _)
CorrelatedSum(L, uncorrelatedRandoms, i, j) ==
  IF j = 0 THEN 0
  ELSE FAdd(CorrelatedSum(L, uncorrelatedRandoms, i, j - 1),
            FMul(L[i][j], uncorrelatedRandoms[j]))

\* generateCorrelatedRandoms for the n draws uncorrelatedRandoms
generateCorrelatedRandoms(n, correlationMatrix, uncorrelatedRandoms) ==
  LET L == choleskyDecomposition(correlationMatrix)
  IN [i \in 1 .. n |-> CorrelatedSum(L, uncorrelatedRandoms, i, i)]

TickersOf(data) == {data[i].ticker : i \in DOMAIN data}

\* a portfolio value that adds the price without its weight
ContributionUnweighted(newPrice, asset) == newPrice

\* newPrice * asset.weight
Contribution(newPrice, asset) == FMul(newPrice, asset.weight)

\* assetData.reduce((sum, asset) => sum + asset.currentPrice * asset.weight, 0)
RECURSIVE InitialValueOf(_)
InitialValueOf(data) ==
  IF data = <<>> THEN 0
  ELSE FAdd(InitialValueOf(SubSeq(data, 1, Len(data) - 1)),
            FMul(data[Len(data)].currentPrice, data[Len(data)].weight))

\* currentAssetPaths after assetData.forEach(a => cap[a.ticker] = [a.currentPrice])
StartAssetPaths(data) ==
  [t \in TickersOf(data) |->
     LET last == CHOOSE i \in DOMAIN data :
                   /\ data[i].ticker = t
                   /\ \A j \in DOMAIN data : data[j].ticker = t => j <= i
     IN <<data[last].currentPrice>>]

\* [cap, portfolioValue] after the first k assets of one day's forEach
RECURSIVE DayFold(_, _, _, _, _)
DayFold(cap, data, randomNumbers, d, k) ==
  IF k = 0 THEN [cap |-> cap, portfolioValue |-> 0]
  ELSE LET before == DayFold(cap, data, randomNumbers, d, k - 1)
           asset == data[k]
           assetDrift ==
             TimesDt(FSub(asset.expectedReturn,
                          FMul(500, FMul(asset.volatility, asset.volatility))))
           assetDiffusion ==
             FMul(FMul(asset.volatility, SqrtDt), randomNumbers[k])
           previousPrice == At(before.cap[asset.ticker], d - 1)
           newPrice ==
             FMul(previousPrice, ExpFP(FAdd(assetDrift, assetDiffusion)))
       IN [cap |-> [before.cap EXCEPT ![asset.ticker] = Append(@, newPrice)],
           portfolioValue |->
             FAdd(before.portfolioValue, Contribution(newPrice, asset))]

\* assetPaths after the first k assets of assetData.forEach(a =>
\* assetPaths[a.ticker].push(currentAssetPaths[a.ticker]))
RECURSIVE StoreFold(_, _, _, _)
StoreFold(ap, cap, data, k) ==
  IF k = 0 THEN ap
  ELSE LET before == StoreFold(ap, cap, data, k - 1)
           t == data[k].ticker
       IN [before EXCEPT ![t] = Append(@, cap[t])]

\* ------------------------------------------------ inputs of the portfolio
TickerLists ==
  {<<"AAPL">>, <<"AAPL", "MSFT">>, <<"AAPL", "JPM">>, <<"AAPL", "AAPL">>,
   <<"AAPL", "MSFT", "GOOGL">>}

WeightsFor(n) ==
  CASE n = 1 -> <<1000>>
    [] n = 2 -> <<600, 400>>
    [] n = 3 -> <<500, 300, 200>>

\* per-asset data the caller may supply with an asset, or leave out
SuppliedData ==
  {[currentPrice |-> Undefined, expectedReturn |-> Undefined,
    volatility |-> Undefined],
   [currentPrice |-> 100000, expectedReturn |-> 80, volatility |-> 200]}

AssetsOf(tickers, supplied) ==
  [i \in DOMAIN tickers |->
     [ticker |-> tickers[i], weight |-> WeightsFor(Len(tickers))[i],
      currentPrice |-> supplied.currentPrice,
      expectedReturn |-> supplied.expectedReturn,
      volatility |-> supplied.volatility]]

Identity(n) == [i \in 1 .. n |-> [j \in 1 .. n |-> IF i = j THEN 1000 ELSE 0]]

PortfolioParams ==
  UNION {UNION {
    {[assets |-> AssetsOf(tickers, supplied), timeHorizon |-> hs[1],
      numSimulations |-> hs[2], correlationMethod |-> "historical",
      customCorrelations |-> <<>>],
     [assets |-> AssetsOf(tickers, supplied), timeHorizon |-> hs[1],
      numSimulations |-> hs[2], correlationMethod |-> "custom",
      customCorrelations |-> Identity(Len(tickers))]} :
    hs \in {u \in (0 .. MaxPDays) \X (0 .. MaxPSims) :
              u[1] * u[2] <= MaxPSteps}} :
    tickers \in TickerLists, supplied \in SuppliedData}

\* ------------------------------------------------ runPortfolioSimulation
InitPortfolio ==
  /\ SimIdle
  /\ StatIdle
  /\ OptIdle
  /\ RndIdle
  /\ portfolioParams \in PortfolioParams
  /\ portfolioPc = "fetch"
  /\ assetData = <<>>
  /\ initialValue = 0
  /\ correlations = <<>>
  /\ pSim = 0
  /\ pDay = 0
  /\ portfolioPath = <<>>
  /\ currentAssetPaths = <<>>
  /\ portfolioPaths = <<>>
  /\ finalValues = <<>>
  /\ assetPaths = <<>>
  /\ portfolioResult = NoResult
  /\ pRandomValues = <<>>

\* await Promise.all(fetch ...); initialValue; correlations; empty storage
PFetch ==
  /\ portfolioPc = "fetch"
  /\ \E fetched \in [DOMAIN portfolioParams.assets -> GeneratedStockData
                       \cup {enhancedSampleData[t] : t \in DOMAIN enhancedSampleData}] :
       /\ \A i \in DOMAIN fetched :
            fetched[i] \in fetchRealStockData(portfolioParams.assets[i].ticker)
       /\ LET data ==
                [i \in DOMAIN portfolioParams.assets |->
                   [ticker |-> portfolioParams.assets[i].ticker,
                    weight |-> portfolioParams.assets[i].weight,
                    currentPrice |-> fetched[i].currentPrice,
                    expectedReturn |-> fetched[i].expectedReturn,
                    volatility |-> fetched[i].volatility]]
          IN /\ assetData' = data
             /\ initialValue' = InitialValueOf(data)
             /\ correlations' = calculateCorrelationMatrix(data)
             /\ assetPaths' = [t \in TickersOf(data) |-> <<>>]
  /\ portfolioPaths' = <<>>
  /\ finalValues' = <<>>
  /\ portfolioPc' = "simLoop"
  /\ UNCHANGED <<portfolioParams, pSim, pDay, portfolioPath,
                 currentAssetPaths, portfolioResult, pRandomValues,
                 notPortVars>>

\* for (sim ...) { portfolioPath = [initialValue]; currentAssetPaths = ...
PBeginPath ==
  /\ portfolioPc = "simLoop"
  /\ pSim < portfolioParams.numSimulations
  /\ portfolioPath' = <<initialValue>>
  /\ currentAssetPaths' = StartAssetPaths(assetData)
  /\ pDay' = 1
  /\ portfolioPc' = "dayLoop"
  /\ UNCHANGED <<portfolioParams, assetData, initialValue, correlations, pSim,
                 portfolioPaths, finalValues, assetPaths, portfolioResult,
                 pRandomValues, notPortVars>>

\* one iteration of the day loop
PStepDay ==
  /\ portfolioPc = "dayLoop"
  /\ pDay <= portfolioParams.timeHorizon
  /\ \E uncorrelatedRandoms \in [DOMAIN assetData -> Normals] :
       LET randomNumbers ==
             generateCorrelatedRandoms(Len(assetData), correlations,
                                       uncorrelatedRandoms)
           after == DayFold(currentAssetPaths, assetData, randomNumbers,
                            pDay, Len(assetData))
       IN /\ currentAssetPaths' = after.cap
          /\ portfolioPath' = Append(portfolioPath, after.portfolioValue)
          /\ pRandomValues' = pRandomValues \o uncorrelatedRandoms
  /\ pDay' = pDay + 1
  /\ UNCHANGED <<portfolioParams, portfolioPc, assetData, initialValue,
                 correlations, pSim, portfolioPaths, finalValues, assetPaths,
                 portfolioResult, notPortVars>>

\* portfolioPaths.push; finalValues.push; store the asset paths; sim++
PEndPath ==
  /\ portfolioPc = "dayLoop"
  /\ pDay > portfolioParams.timeHorizon
  /\ portfolioPaths' = Append(portfolioPaths, portfolioPath)
  /\ finalValues' = Append(finalValues, At(portfolioPath, Len(portfolioPath) - 1))
  /\ assetPaths' = StoreFold(assetPaths, currentAssetPaths, assetData,
                             Len(assetData))
  /\ pSim' = pSim + 1
  /\ portfolioPc' = "simLoop"
  /\ UNCHANGED <<portfolioParams, assetData, initialValue, correlations, pDay,
                 portfolioPath, currentAssetPaths, portfolioResult,
                 pRandomValues, notPortVars>>

\* statistics; riskMetrics; return
PFinish ==
  /\ portfolioPc = "simLoop"
  /\ pSim >= portfolioParams.numSimulations
  /\ portfolioResult' =
       [returned |-> TRUE,
        paths |-> portfolioPaths,
        finalValues |-> finalValues,
        initialValue |-> initialValue,
        assetPaths |-> assetPaths,
        statistics |-> PortfolioStatistics(finalValues, initialValue),
        riskMetrics |->
          PortfolioRiskMetrics(finalValues, initialValue, portfolioPaths)]
  /\ portfolioPc' = "returned"
  /\ UNCHANGED <<portfolioParams, assetData, initialValue, correlations, pSim,
                 pDay, portfolioPath, currentAssetPaths, portfolioPaths,
                 finalValues, assetPaths, pRandomValues, notPortVars>>

NextPortfolio == PFetch \/ PBeginPath \/ PStepDay \/ PEndPath \/ PFinish

SpecPortfolio == InitPortfolio /\ [][NextPortfolio]_vars

\* ---------------------------------------------------- portfolio properties
FetchDone == portfolioPc # "fetch" /\ portfolioPc # "idle"

\* C4 as stated: when a diagonal term of the Cholesky decomposition of the
\* correlation matrix is non-positive the simulation signals an error
\* instead of continuing: no day of any path is simulated with that matrix
\* and no result is returned from it.
C4_InvalidCorrelationMatrix ==
  (FetchDone /\ \E i \in DOMAIN correlations :
                  ~FLess(0, DiagonalTerm(correlations, i))) =>
    /\ Len(portfolioPath) <= 1
    /\ \A s \in DOMAIN portfolioPaths : Len(portfolioPaths[s]) <= 1

\* C5 as stated: the correlation matrix in use is params.customCorrelations
\* when correlationMethod is 'custom', and the per-asset currentPrice,
\* expectedReturn and volatility supplied in params.assets are the ones
\* simulated.
C5_CallerSpecified ==
  FetchDone =>
    /\ (portfolioParams.correlationMethod = "custom"
          /\ portfolioParams.customCorrelations # <<>>) =>
         correlations = portfolioParams.customCorrelations
    /\ \A i \in DOMAIN assetData :
         portfolioParams.assets[i].currentPrice # Undefined =>
           /\ assetData[i].currentPrice = portfolioParams.assets[i].currentPrice
           /\ assetData[i].expectedReturn = portfolioParams.assets[i].expectedReturn
           /\ assetData[i].volatility = portfolioParams.assets[i].volatility

DistinctTickers(data) ==
  \A i, j \in DOMAIN data : data[i].ticker = data[j].ticker => i = j

\* sum over the first k assets of weight * (price of the asset at position
\* pos of its path in simulation s), accumulated from 0
RECURSIVE WeightedSumAt(_, _, _)
WeightedSumAt(s, pos, k) ==
  IF k = 0 THEN 0
  ELSE FAdd(WeightedSumAt(s, pos, k - 1),
            FMul(portfolioResult.assetPaths[assetData[k].ticker][s][pos],
                 assetData[k].weight))

\* C6: for assets with pairwise distinct tickers every portfolio path and
\* every asset path has length timeHorizon + 1, element 0 of a portfolio
\* path is initialValue = sum of weight * currentPrice, and element d is the
\* sum of weight * price of the asset on day d of the same simulation.
C6_PortfolioValue ==
  (portfolioResult.returned /\ DistinctTickers(assetData)) =>
    /\ Len(portfolioResult.paths) = portfolioParams.numSimulations
    /\ \A s \in DOMAIN portfolioResult.paths :
         /\ Len(portfolioResult.paths[s]) = portfolioParams.timeHorizon + 1
         /\ \A i \in DOMAIN assetData :
              /\ Len(portfolioResult.assetPaths[assetData[i].ticker]) =
                   portfolioParams.numSimulations
              /\ Len(portfolioResult.assetPaths[assetData[i].ticker][s]) =
                   portfolioParams.timeHorizon + 1
              /\ portfolioResult.assetPaths[assetData[i].ticker][s][1] =
                   assetData[i].currentPrice
         /\ portfolioResult.paths[s][1] = portfolioResult.initialValue
         /\ \A pos \in 1 .. portfolioParams.timeHorizon + 1 :
              portfolioResult.paths[s][pos] =
                WeightedSumAt(s, pos, Len(assetData))

C6_Witness ==
  /\ portfolioResult.returned
  /\ DistinctTickers(assetData)
  /\ Len(assetData) >= 2
  /\ portfolioParams.numSimulations >= 2
  /\ portfolioParams.timeHorizon >= 2
  /\ \A s \in DOMAIN portfolioResult.paths :
       \A pos \in DOMAIN portfolioResult.paths[s] :
         IsFiniteNum(portfolioResult.paths[s][pos])
  /\ portfolioResult.paths[1] # portfolioResult.paths[2]
  /\ portfolioResult.paths[1][2] # portfolioResult.paths[1][3]

\* ------------------------------------------------ zero denominators (C11)
\* C11: with at least one terminal value, the Sharpe ratio and the Sortino
\* ratio of calculateRiskMetrics and the Sharpe ratio of the portfolio
\* statistics are never NaN; a zero denominator gives 0 or an infinity.
C11_DefinedRatios ==
  (statOut.returned /\ Len(statIn.finalPrices) >= 1) =>
    /\ statOut.kind = "risk" =>
         /\ ~IsNaN(statOut.riskMetrics.sharpeRatio)
         /\ ~IsNaN(statOut.riskMetrics.sortinoRatio)
    /\ statOut.kind = "portfolio" =>
         ~IsNaN(statOut.statistics.sharpeRatio)

\* ------------------------------------------------------ max drawdown (C12)
\* the running peak of a path at its k-th value (k >= 1)
RunningPeak(pth, k) == MathMax(SubSeq(pth, 1, k))

\* max over time of (runningPeak - currentValue) / runningPeak
PathDrawdown(pth) ==
  LET dd == {FDiv(FSub(RunningPeak(pth, k), pth[k]), RunningPeak(pth, k)) :
               k \in 1 .. Len(pth)}
  IN CHOOSE m \in dd : \A d \in dd : d <= m

\* the maximum of PathDrawdown over the paths of an ensemble
EnsembleDrawdown(pths) ==
  LET dd == {PathDrawdown(pths[i]) : i \in 1 .. Len(pths)}
  IN CHOOSE m \in dd : \A d \in dd : d <= m

\* the value path 1, (1 + r1), (1 + r1)(1 + r2), ...
RECURSIVE ValuePath(_)
ValuePath(returns) ==
  IF returns = <<>> THEN <<FP>>
  ELSE LET before == ValuePath(SubSeq(returns, 1, Len(returns) - 1))
       IN Append(before,
                 FMul(before[Len(before)], FAdd(FP, returns[Len(returns)])))

\* the one-day paths from statIn.currentPrice to each terminal value
TerminalPaths ==
  [i \in DOMAIN statIn.finalPrices |->
     <<statIn.currentPrice, statIn.finalPrices[i]>>]

\* the portfolio figure taken alone agrees with the definition
C12_PortfolioPart ==
  (statOut.returned /\ Len(statIn.finalPrices) >= 1
     /\ statOut.kind = "portfolio") =>
    statOut.riskMetrics.maxDrawdown = EnsembleDrawdown(TerminalPaths)

\* C12: every reported max drawdown equals the maximum over the paths and
\* over time of (runningPeak - value) / runningPeak, the peak starting at
\* the first value of the path: for the portfolio risk metrics and for
\* calculateRiskMetrics on the one-day paths to the terminal values, and
\* for RiskManager.calculateMaxDrawdown on the value path of its returns.
C12_MaxDrawdown ==
  (statOut.returned /\ Len(statIn.finalPrices) >= 1) =>
    /\ statOut.kind \in {"portfolio", "risk"} =>
         statOut.riskMetrics.maxDrawdown = EnsembleDrawdown(TerminalPaths)
    /\ statOut.kind = "riskManager" =>
         statOut.riskMetrics.maxDrawdown =
           PathDrawdown(ValuePath(ReturnsOf(statIn.finalPrices,
                                            statIn.currentPrice)))

\* ====================================================== options library
\* a <= b on doubles: false as soon as one side is NaN
FLessEq(a, b) == ~IsNaN(a) /\ ~IsNaN(b) /\ a <= b

\* Math.max(a, b) and Math.min(a, b)
FMax(a, b) == IF IsNaN(a) \/ IsNaN(b) THEN NaN ELSE IF a > b THEN a ELSE b

FMin(a, b) == IF IsNaN(a) \/ IsNaN(b) THEN NaN ELSE IF a < b THEN a ELSE b

\* the polynomial in t of normCDF, by Horner's rule as the code writes it
NormPoly(t) ==
  FMul(FAdd(FMul(FAdd(FMul(FAdd(FMul(FAdd(FMul(1061, t), -1453), t), 1421),
                           t), -284), t), 254), t)

\* y = 1 - poly(t) * exp(-x * x) with t = 1 / (1 + p * x)
NormTail(x) ==
  FSub(FP, FMul(NormPoly(FDiv(FP, FAdd(FP, FMul(327, x)))),
                ExpFP(FMul(FNeg(x), x))))

\* OptionsCalculator.normCDF with the coefficients to three decimals
normCDF(x0) ==
  FMul(FP \div 2,
       FAdd(FP, FMul(IF FLess(x0, 0) THEN -FP ELSE FP,
                     NormTail(FDiv(FAbs(x0), FSqrt(2 * FP))))))

MathPI == 3141

\* OptionsCalculator.normPDF
normPDF(x) ==
  FDiv(ExpFP(FMul(FMul(-(FP \div 2), x), x)), FSqrt(FMul(2 * FP, MathPI)))

\* dividendYield = 0 when the field is absent
DividendYieldOf(p) ==
  IF p.dividendYield = Undefined THEN 0 ELSE p.dividendYield

\* d1 as blackScholes and calculateGreeks both compute it
D1(p) ==
  FDiv(FAdd(LnFP(FDiv(p.spot, p.strike)),
            FMul(FAdd(FSub(p.riskFreeRate, DividendYieldOf(p)),
                      FMul(FMul(FP \div 2, p.volatility), p.volatility)),
                 p.timeToExpiry)),
       FMul(p.volatility, FSqrt(p.timeToExpiry)))

\* d2 = d1 - volatility * sqrt(timeToExpiry)
D2(p, d1) == FSub(d1, FMul(p.volatility, FSqrt(p.timeToExpiry)))

\* Math.exp(-dividendYield * timeToExpiry)
ExpQ(p) == ExpFP(FMul(FNeg(DividendYieldOf(p)), p.timeToExpiry))

\* Math.exp(-riskFreeRate * timeToExpiry)
ExpR(p) == ExpFP(FMul(FNeg(p.riskFreeRate), p.timeToExpiry))

\* timeToExpiry < 0 in place of timeToExpiry <= 0
ExpiredStrict(p) == FLess(p.timeToExpiry, 0)

\* the guard timeToExpiry <= 0 of blackScholes and calculateGreeks
Expired(p) == FLessEq(p.timeToExpiry, 0)

\* callPrice, putPrice and the returned object of blackScholes
PriceFrom(nd1, nd2, nMinusd1, nMinusd2, discountedSpot, discountedStrike) ==
  [call |->
     FMax(FSub(FMul(discountedSpot, nd1), FMul(discountedStrike, nd2)), 0),
   put |->
     FMax(FSub(FMul(discountedStrike, nMinusd2),
               FMul(discountedSpot, nMinusd1)), 0),
   d1Evaluated |-> TRUE]

\* nd1, nd2, nMinusd1 and nMinusd2 of blackScholes
PriceAt(p, d1, d2) ==
  PriceFrom(normCDF(d1), normCDF(d2), normCDF(FNeg(d1)), normCDF(FNeg(d2)),
            FMul(p.spot, ExpQ(p)), FMul(p.strike, ExpR(p)))

\* blackScholes past its early return
PriceAtD1(p, d1) == PriceAt(p, d1, D2(p, d1))

\* OptionsCalculator.blackScholes; d1Evaluated tells whether the call got
\* past the early return
blackScholes(p) ==
  IF Expired(p)
    THEN [call |-> FMax(FSub(p.spot, p.strike), 0),
          put |-> FMax(FSub(p.strike, p.spot), 0),
          d1Evaluated |-> FALSE]
  ELSE PriceAtD1(p, D1(p))

\* theta of calculateGreeks before the conversion to a daily figure
ThetaFrom(optionType, term1, term2, term3, nd1, nMinusd1, nd2, nMinusd2) ==
  IF optionType = "call"
    THEN FAdd(FSub(term1, FMul(term2, nd2)), FMul(term3, nd1))
    ELSE FSub(FAdd(term1, FMul(term2, nMinusd2)), FMul(term3, nMinusd1))

\* delta, gamma, theta, vega and rho of calculateGreeks
GreeksFrom(p, optionType, nd1, nMinusd1, nd2, nMinusd2, pdf1, expQ, expR, sqrtT) ==
  [delta |->
     IF optionType = "call" THEN FMul(expQ, nd1)
     ELSE FMul(FNeg(expQ), nMinusd1),
   gamma |->
     FDiv(FMul(expQ, pdf1), FMul(FMul(p.spot, p.volatility), sqrtT)),
   theta |->
     FDiv(ThetaFrom(optionType,
                    FDiv(FMul(FMul(FMul(FNeg(p.spot), pdf1), p.volatility),
                              expQ),
                         FMul(2 * FP, sqrtT)),
                    FMul(FMul(p.riskFreeRate, p.strike), expR),
                    FMul(FMul(DividendYieldOf(p), p.spot), expQ),
                    nd1, nMinusd1, nd2, nMinusd2),
          365 * FP),
   vega |-> FDiv(FMul(FMul(FMul(p.spot, expQ), pdf1), sqrtT), 100 * FP),
   rho |->
     IF optionType = "call"
       THEN FDiv(FMul(FMul(FMul(p.strike, p.timeToExpiry), expR), nd2),
                 100 * FP)
       ELSE FDiv(FMul(FMul(FMul(FNeg(p.strike), p.timeToExpiry), expR),
                      nMinusd2),
                 100 * FP)]

\* nd1, nMinusd1, nd2, nMinusd2 and pdf1 of calculateGreeks
GreeksAt(p, optionType, d1, d2) ==
  GreeksFrom(p, optionType, normCDF(d1), normCDF(FNeg(d1)), normCDF(d2),
             normCDF(FNeg(d2)), normPDF(d1), ExpQ(p), ExpR(p),
             FSqrt(p.timeToExpiry))

\* calculateGreeks past its early return
GreeksAtD1(p, optionType, d1) == GreeksAt(p, optionType, d1, D2(p, d1))

\* OptionsCalculator.calculateGreeks
calculateGreeks(p, optionType) ==
  IF Expired(p)
    THEN [delta |-> 0, gamma |-> 0, theta |-> 0, vega |-> 0, rho |-> 0]
  ELSE GreeksAtD1(p, optionType, D1(p))

\* ------------------------------------------------------- calculatePayoff
\* a sold leg paid like a bought one
LegPayoffAlwaysBought(leg, spot) ==
  LET intrinsic ==
        IF leg.type = "call" THEN FMax(FSub(spot, leg.strike), 0)
        ELSE FMax(FSub(leg.strike, spot), 0)
  IN FSub(intrinsic, leg.premium)

\* legPayoff of one leg at one spot
LegPayoff(leg, spot) ==
  LET intrinsic ==
        IF leg.type = "call" THEN FMax(FSub(spot, leg.strike), 0)
        ELSE FMax(FSub(leg.strike, spot), 0)
  IN IF leg.action = "buy" THEN FSub(intrinsic, leg.premium)
     ELSE FSub(leg.premium, intrinsic)

\* totalPayoff after strategy.legs.forEach
RECURSIVE TotalPayoff(_, _)
TotalPayoff(legs, spot) ==
  IF legs = <<>> THEN 0
  ELSE LET leg == legs[Len(legs)]
       IN FAdd(TotalPayoff(SubSeq(legs, 1, Len(legs) - 1), spot),
               FMul(LegPayoff(leg, spot), leg.quantity))

\* OptionsStrategyBuilder.calculatePayoff
calculatePayoff(strategy, spotPrices) ==
  [k \in DOMAIN spotPrices |->
     [spot |-> spotPrices[k],
      payoff |-> TotalPayoff(strategy.legs, spotPrices[k])]]

\* ------------------------------------------- calls into the options library
MaxLegs == 2
MaxSpots == 2

OptionSpots == {80000, 100000, 125000}
OptionStrikes == {100000}
TimesToExpiry == {-1000, 0, 1000, 4000}
RiskFreeRates == {0, 50}
OptionVolatilities == {0, 200, 500}
DividendYields == {Undefined, 50}

OptionParameters ==
  [spot : OptionSpots, strike : OptionStrikes, timeToExpiry : TimesToExpiry,
   riskFreeRate : RiskFreeRates, volatility : OptionVolatilities,
   dividendYield : DividendYields]

\* Omit<OptionParameters, 'volatility'>
ParametersWithoutVolatility ==
  [spot : OptionSpots, strike : OptionStrikes, timeToExpiry : TimesToExpiry,
   riskFreeRate : RiskFreeRates, dividendYield : DividendYields]

\* {...params, volatility: vol}
WithVolatility(p, volatility) ==
  [spot |-> p.spot, strike |-> p.strike, timeToExpiry |-> p.timeToExpiry,
   riskFreeRate |-> p.riskFreeRate, volatility |-> volatility,
   dividendYield |-> p.dividendYield]

OptionTypes == {"call", "put"}

\* the price of the option of one type in an OptionPrice
PriceOf(optionPrice, optionType) ==
  IF optionType = "call" THEN optionPrice.call ELSE optionPrice.put

\* market prices handed to impliedVolatility: prices the model itself quotes
\* at a volatility of 0.2 or 0.5, a price of 0 and a price above the spot
MarketPrices(p, optionType) ==
  {0, 500000} \cup
  {PriceOf(blackScholes(WithVolatility(p, v)), optionType) : v \in {200, 500}}

OptionLegs ==
  [type : OptionTypes, action : {"buy", "sell"}, strike : {100000},
   quantity : {1000, 2000}, premium : {5000}]

Strategies ==
  {[legs |-> l] : l \in UNION {[1 .. n -> OptionLegs] : n \in 0 .. MaxLegs}}

SpotRanges == UNION {[1 .. n -> {80000, 120000}] : n \in 0 .. MaxSpots}

OptionCalls ==
  {[op |-> o, params |-> p] :
     o \in {"blackScholes", "calculateGreeks"}, p \in OptionParameters}
  \cup
  UNION {UNION {{[op |-> "impliedVolatility", params |-> p,
                  marketPrice |-> m, optionType |-> t] :
                   m \in MarketPrices(p, t)} :
                 t \in OptionTypes} :
         p \in ParametersWithoutVolatility}
  \cup
  {[op |-> "calculatePayoff", strategy |-> st, spotPrices |-> sp] :
     st \in Strategies, sp \in SpotRanges}

\* impliedVolatility constants
initialGuess == 200
maxIterations == 100

InitOptions ==
  /\ SimIdle
  /\ StatIdle
  /\ PortIdle
  /\ RndIdle
  /\ optIn \in OptionCalls
  /\ optOut = NoResult
  /\ optPc = IF optIn.op = "impliedVolatility" THEN "ivLoop" ELSE "call"
  /\ ivVol = IF optIn.op = "impliedVolatility" THEN initialGuess ELSE 0
  /\ ivIter = 0

\* OptionsCalculator.blackScholes(optIn.params)
BlackScholesCall ==
  /\ optIn.op = "blackScholes"
  /\ optPc = "call"
  /\ optOut' = [returned |-> TRUE, kind |-> "blackScholes",
                price |-> blackScholes(optIn.params)]
  /\ optPc' = "done"
  /\ UNCHANGED <<optIn, ivVol, ivIter, notOptVars>>

\* OptionsCalculator.calculateGreeks(optIn.params, type) for both types
GreeksCall ==
  /\ optIn.op = "calculateGreeks"
  /\ optPc = "call"
  /\ optOut' = [returned |-> TRUE, kind |-> "calculateGreeks",
                call |-> calculateGreeks(optIn.params, "call"),
                put |-> calculateGreeks(optIn.params, "put")]
  /\ optPc' = "done"
  /\ UNCHANGED <<optIn, ivVol, ivIter, notOptVars>>

\* OptionsStrategyBuilder.calculatePayoff(optIn.strategy, optIn.spotPrices)
PayoffCall ==
  /\ optIn.op = "calculatePayoff"
  /\ optPc = "call"
  /\ optOut' = [returned |-> TRUE, kind |-> "calculatePayoff",
                payoffs |-> calculatePayoff(optIn.strategy, optIn.spotPrices)]
  /\ optPc' = "done"
  /\ UNCHANGED <<optIn, ivVol, ivIter, notOptVars>>

\* ------------------------------------------------------ impliedVolatility
fullParams == WithVolatility(optIn.params, ivVol)

\* priceDiff of the current iteration
priceDiff ==
  FSub(PriceOf(blackScholes(fullParams), optIn.optionType), optIn.marketPrice)

\* Math.abs(priceDiff) < tolerance with tolerance = 0.0001
WithinTolerance(x) == IsFiniteNum(x) /\ (10000 \div FP) * Abs(x) < 1

\* greeks.vega * 100 of the current iteration
ivVega == FMul(calculateGreeks(fullParams, optIn.optionType).vega, 100 * FP)

\* the update without the clamp
NoClampVol(x) == x

\* Math.max(0.001, Math.min(vol, 5.0))
ClampVol(x) == FMax(1, FMin(x, 5000))

IvReturn(why) ==
  /\ optOut' = [returned |-> TRUE, kind |-> "impliedVolatility",
                value |-> ivVol, iterations |-> ivIter, exit |-> why]
  /\ optPc' = "done"
  /\ UNCHANGED <<optIn, ivVol, ivIter, notOptVars>>

\* if (Math.abs(priceDiff) < tolerance) return vol
IvConverged ==
  /\ optPc = "ivLoop"
  /\ ivIter < maxIterations
  /\ WithinTolerance(priceDiff)
  /\ IvReturn("converged")

\* if (vega === 0) break, then return vol
IvVegaZero ==
  /\ optPc = "ivLoop"
  /\ ivIter < maxIterations
  /\ ~WithinTolerance(priceDiff)
  /\ ivVega = 0
  /\ IvReturn("vegaZero")

\* the Newton update and the clamp, then i++
IvUpdate ==
  /\ optPc = "ivLoop"
  /\ ivIter < maxIterations
  /\ ~WithinTolerance(priceDiff)
  /\ ivVega # 0
  /\ ivVol' = ClampVol(FSub(ivVol, FDiv(priceDiff, ivVega)))
  /\ ivIter' = ivIter + 1
  /\ UNCHANGED <<optIn, optOut, optPc, notOptVars>>

\* the loop condition i < maxIterations fails, then return vol
IvExhausted ==
  /\ optPc = "ivLoop"
  /\ ivIter >= maxIterations
  /\ IvReturn("exhausted")

NextOptions ==
  \/ BlackScholesCall
  \/ GreeksCall
  \/ PayoffCall
  \/ IvConverged
  \/ IvVegaZero
  \/ IvUpdate
  \/ IvExhausted

SpecOptions == InitOptions /\ [][NextOptions]_vars

\* ------------------------------------------------------------------ C13
\* C13: a blackScholes call with timeToExpiry <= 0 returns exactly
\* max(spot - strike, 0) for the call and max(strike - spot, 0) for the put,
\* and returns before d1 is evaluated
C13_Intrinsic ==
  (optOut.returned /\ optOut.kind = "blackScholes"
   /\ optIn.params.timeToExpiry <= 0)
  => /\ optOut.price.call =
          (IF optIn.params.spot > optIn.params.strike
             THEN optIn.params.spot - optIn.params.strike ELSE 0)
     /\ optOut.price.put =
          (IF optIn.params.strike > optIn.params.spot
             THEN optIn.params.strike - optIn.params.spot ELSE 0)
     /\ ~optOut.price.d1Evaluated

\* an option priced at its expiry, in the money, with zero volatility
C13_Witness ==
  /\ optOut.returned
  /\ optOut.kind = "blackScholes"
  /\ optIn.params.timeToExpiry = 0
  /\ optIn.params.volatility = 0
  /\ optIn.params.spot = 125000
  /\ optOut.price.call = 25000
  /\ optOut.price.put = 0

\* ------------------------------------------------------------------ C14
\* within two units of the last decimal kept
NearFP(a, b) == IsFiniteNum(a) /\ IsFiniteNum(b) /\ Abs(a - b) <= 2

\* C14: for valid parameters with timeToExpiry >= 0 the delta of the call
\* less the delta of the put equals exp(-dividendYield * timeToExpiry)
C14_DeltaParity ==
  (optOut.returned /\ optOut.kind = "calculateGreeks"
   /\ optIn.params.timeToExpiry >= 0)
  => NearFP(FSub(optOut.call.delta, optOut.put.delta), ExpQ(optIn.params))

\* C14 for the calls with timeToExpiry > 0 and volatility > 0
C14_DeltaParityBeforeExpiry ==
  (optOut.returned /\ optOut.kind = "calculateGreeks"
   /\ optIn.params.timeToExpiry > 0 /\ optIn.params.volatility > 0)
  => NearFP(FSub(optOut.call.delta, optOut.put.delta), ExpQ(optIn.params))

\* ------------------------------------------------------------------ C15
\* the rounding of the four normCDF values at the last decimal kept, scaled
\* by the prices they multiply
ParitySlack(p) == 2 * ((p.spot + p.strike) \div FP) + 2

\* call - put against spot * exp(-q * T) - strike * exp(-r * T)
ParityHolds(p, optionPrice) ==
  /\ IsFiniteNum(optionPrice.call)
  /\ IsFiniteNum(optionPrice.put)
  /\ Abs((optionPrice.call - optionPrice.put)
         - FSub(FMul(p.spot, ExpQ(p)), FMul(p.strike, ExpR(p))))
       <= ParitySlack(p)

\* C15: for all valid inputs the prices of blackScholes satisfy
\* call - put = spot * exp(-q * T) - strike * exp(-r * T), the zero clamp of
\* both prices included
C15_PutCallParity ==
  (optOut.returned /\ optOut.kind = "blackScholes"
   /\ optIn.params.timeToExpiry >= 0)
  => ParityHolds(optIn.params, optOut.price)

\* C15 for the calls with volatility > 0
C15_PutCallParityPositiveVolatility ==
  (optOut.returned /\ optOut.kind = "blackScholes"
   /\ optIn.params.timeToExpiry >= 0 /\ optIn.params.volatility > 0)
  => ParityHolds(optIn.params, optOut.price)

\* ------------------------------------------------------------------ C17
\* every number of a GreeksResult is finite
FiniteGreeks(g) ==
  /\ IsFiniteNum(g.delta)
  /\ IsFiniteNum(g.gamma)
  /\ IsFiniteNum(g.theta)
  /\ IsFiniteNum(g.vega)
  /\ IsFiniteNum(g.rho)

\* the numbers a call into blackScholes or calculateGreeks returned
FiniteOutput ==
  /\ optOut.kind = "blackScholes"
       => IsFiniteNum(optOut.price.call) /\ IsFiniteNum(optOut.price.put)
  /\ optOut.kind = "calculateGreeks"
       => FiniteGreeks(optOut.call) /\ FiniteGreeks(optOut.put)

\* C17: for parameters the data model allows (spot > 0, strike > 0,
\* timeToExpiry >= 0, volatility >= 0, dividendYield >= 0) blackScholes and
\* calculateGreeks return finite numbers, volatility = 0 with
\* timeToExpiry > 0 included
C17_FiniteResults ==
  (optOut.returned /\ optOut.kind \in {"blackScholes", "calculateGreeks"}
   /\ optIn.params.timeToExpiry >= 0)
  => FiniteOutput

\* C17 for the calls with volatility > 0
C17_FinitePositiveVolatility ==
  (optOut.returned /\ optOut.kind \in {"blackScholes", "calculateGreeks"}
   /\ optIn.params.timeToExpiry >= 0 /\ optIn.params.volatility > 0)
  => FiniteOutput

\* ------------------------------------------------------------------ C16
\* the price of the option at a volatility, less the market price
PriceGap(volatility) ==
  FSub(PriceOf(blackScholes(WithVolatility(optIn.params, volatility)),
               optIn.optionType),
       optIn.marketPrice)

\* an impliedVolatility call has returned
IvReturned == optOut.returned /\ optOut.kind = "impliedVolatility"

\* what a returned call reports
C16_Returned ==
  IvReturned =>
    /\ optOut.iterations \in 0 .. maxIterations
    /\ optOut.value # initialGuess => optOut.value \in 1 .. 5000
    /\ optOut.exit = "converged" =>
         /\ optOut.iterations < maxIterations
         /\ 10 * Abs(PriceGap(optOut.value)) < 1
    /\ optOut.exit = "vegaZero" =>
         /\ optOut.iterations < maxIterations
         /\ calculateGreeks(WithVolatility(optIn.params, optOut.value),
                            optIn.optionType).vega = 0
    /\ optOut.exit = "exhausted" => optOut.iterations = maxIterations

\* the loop variables while the call runs
C16_Running ==
  optPc = "ivLoop" =>
    /\ ivIter \in 0 .. maxIterations
    /\ ivIter = 0 => ivVol = initialGuess
    /\ ivIter > 0 => ivVol \in 1 .. 5000

\* one step of a running call: it returns the current volatility at once when
\* the price is within the tolerance, and otherwise counts one iteration
C16_Step ==
  optPc = "ivLoop" =>
    /\ (ivIter < maxIterations /\ 10 * Abs(PriceGap(ivVol)) < 1)
         => optOut'.returned /\ optOut'.value = ivVol
    /\ optPc' = "ivLoop" => ivIter' = ivIter + 1
    /\ optPc' # "ivLoop" => optOut'.returned /\ optOut'.value = ivVol

\* C16: impliedVolatility returns after at most 100 loop iterations; it
\* returns the current volatility as soon as the price is within 1e-4 of the
\* market price, stops when vega is 0, and every returned value other than
\* the initial guess 0.2 lies in [0.001, 5.0]
C16_ImpliedVolatility ==
  /\ [](C16_Returned /\ C16_Running)
  /\ [][C16_Step]_vars

\* calls that converged after updates, ran out of iterations at a clamp
\* bound, and stopped on a zero vega
C16_WitnessConverged ==
  /\ IvReturned
  /\ optOut.exit = "converged"
  /\ optOut.iterations > 1
  /\ optOut.value \notin {1, initialGuess, 5000}

\* ------------------------------------------------------------------ C18
\* quantity * (intrinsic - premium) of a bought leg and
\* quantity * (premium - intrinsic) of a sold one, in whole units
SignedLegValue(leg, spot) ==
  LET distance ==
        IF leg.type = "call" THEN spot - leg.strike ELSE leg.strike - spot
      intrinsic == IF distance > 0 THEN distance ELSE 0
      sign == IF leg.action = "buy" THEN 1 ELSE -1
  IN (leg.quantity * sign * (intrinsic - leg.premium)) \div FP

\* the sum of SignedLegValue over the first n legs
RECURSIVE SignedLegSum(_, _, _)
SignedLegSum(legs, spot, n) ==
  IF n = 0 THEN 0
  ELSE SignedLegSum(legs, spot, n - 1) + SignedLegValue(legs[n], spot)

\* C18: calculatePayoff returns one {spot, payoff} per spot price, in the
\* order given, with payoff the sum over the legs of
\* quantity * (intrinsic - premium) for a bought leg and
\* quantity * (premium - intrinsic) for a sold one; without legs it is 0
C18_Payoff ==
  (optOut.returned /\ optOut.kind = "calculatePayoff")
  => /\ Len(optOut.payoffs) = Len(optIn.spotPrices)
     /\ \A k \in 1 .. Len(optIn.spotPrices) :
          /\ optOut.payoffs[k].spot = optIn.spotPrices[k]
          /\ optOut.payoffs[k].payoff =
               SignedLegSum(optIn.strategy.legs, optIn.spotPrices[k],
                            Len(optIn.strategy.legs))
          /\ optIn.strategy.legs = <<>> => optOut.payoffs[k].payoff = 0

\* one call {strike 100, premium 5, quantity 1} bought, paid at 80 and at 120
C18_Witness ==
  /\ optOut.returned
  /\ optOut.kind = "calculatePayoff"
  /\ optIn.strategy.legs =
       <<[type |-> "call", action |-> "buy", strike |-> 100000,
          quantity |-> 1000, premium |-> 5000]>>
  /\ optIn.spotPrices = <<80000, 120000>>
  /\ optOut.payoffs = <<[spot |-> 80000, payoff |-> -5000],
                        [spot |-> 120000, payoff |-> 15000]>>

\* ========================================================== randomNormal
MaxDraws == 3
UniformSteps == 10

\* values Math.random() returns to randomNormal: [0, 1) on a grid, 0 included
UniformDraws == {k * (FP \div UniformSteps) : k \in 0 .. UniformSteps - 1}

\* Math.cos, linear between its extrema at the multiples of Math.PI
CosFP(x) ==
  IF ~IsFiniteNum(x) THEN NaN
  ELSE LET m == Abs(x) % (2 * MathPI)
       IN IF m <= MathPI THEN FP - (2 * FP * m) \div MathPI
          ELSE (2 * FP * (m - MathPI)) \div MathPI - FP

\* Math.sqrt(-2.0 * Math.log(u)) * Math.cos(2.0 * Math.PI * v)
BoxMuller(u, v) ==
  FMul(FSqrt(FMul(-2 * FP, LnFP(u))), CosFP(FMul(FMul(2 * FP, MathPI), v)))

\* a loop test that never asks for another draw
NeverRedraw(x) == FALSE

\* the loop tests u === 0 and v === 0
Redraw(x) == x = 0

\* the count of Math.random() calls, no longer counted past MaxDraws
CountDraw(n) == IF n < MaxDraws THEN n + 1 ELSE n

InitRandom ==
  /\ SimIdle
  /\ StatIdle
  /\ PortIdle
  /\ OptIdle
  /\ RestIdle
  /\ rnPc = "drawU"
  /\ rnU = 0
  /\ rnV = 0
  /\ rnCalls = 0
  /\ rnOut = NoResult

\* while (u === 0) u = Math.random(), one draw x
DrawU(x) ==
  /\ rnPc = "drawU"
  /\ rnU' = x
  /\ rnCalls' = CountDraw(rnCalls)
  /\ rnPc' = IF Redraw(x) THEN "drawU" ELSE "drawV"
  /\ UNCHANGED <<rnV, rnOut, notRndVars>>

\* while (v === 0) v = Math.random(), one draw x, and the return after it
DrawV(x) ==
  /\ rnPc = "drawV"
  /\ rnV' = x
  /\ rnCalls' = CountDraw(rnCalls)
  /\ rnPc' = IF Redraw(x) THEN "drawV" ELSE "done"
  /\ rnOut' = IF Redraw(x) THEN rnOut
              ELSE [returned |-> TRUE, value |-> BoxMuller(rnU, x)]
  /\ UNCHANGED <<rnU, notRndVars>>

NextRandom == \E x \in UniformDraws : DrawU(x) \/ DrawV(x)

SpecRandom == InitRandom /\ [][NextRandom]_vars

\* the source of uniform numbers returns a nonzero number eventually
SourceEventuallyNonzero ==
  /\ WF_vars(\E x \in UniformDraws \ {0} : DrawU(x))
  /\ WF_vars(\E x \in UniformDraws \ {0} : DrawV(x))

SpecRandomFair == SpecRandom /\ SourceEventuallyNonzero

\* ------------------------------------------------------------------ C20
\* u and v where randomNormal has left the loop that draws them
C20_NonzeroOnExit ==
  /\ rnPc \in {"drawV", "done"} => rnU # 0
  /\ rnPc = "done" =>
       /\ rnV # 0
       /\ rnOut.returned
       /\ IsFiniteNum(rnOut.value)
  /\ rnOut.returned => rnPc = "done"

\* C20: randomNormal draws u and v again while they are exactly 0, so both
\* are nonzero when it computes its result, and it returns provided the
\* source of uniform numbers eventually returns a nonzero number
C20_RandomNormal == []C20_NonzeroOnExit /\ <>(rnPc = "done")

\* a call that drew 0 at least once before it returned
C20_Witness ==
  /\ rnPc = "done"
  /\ rnCalls = MaxDraws
  /\ rnU # 0
  /\ rnV # 0
  /\ rnOut.returned

\* ================================================ both simulations at once
InitSimulations == Init \/ InitPortfolio

NextSimulations == Next \/ NextPortfolio

SpecSimulations == InitSimulations /\ [][NextSimulations]_vars

\* ------------------------------------------------------------------ C19
\* the day loop of one path from day d on, fed from the values of the random
\* source: the price and path it ends with and the values it leaves
RECURSIVE ReplayDays(_, _, _, _, _, _)
ReplayDays(im, p, d, prc, pth, values) ==
  IF d > p.timeHorizon THEN [price |-> prc, path |-> pth, rest |-> values]
  ELSE IF im = "plain"
    THEN LET newPrice == FMul(prc, ExpFP(PlainChange(p, values[1])))
         IN ReplayDays(im, p, d + 1, newPrice, Append(pth, newPrice),
                       SubSeq(values, 2, Len(values)))
  ELSE LET jumped == values[2] < jumpIntensity
           newPrice ==
             FMul(prc, ExpFP(JumpChange(p, values[1], values[2],
                                        IF jumped THEN values[3] ELSE 0)))
       IN ReplayDays(im, p, d + 1, newPrice, Append(pth, newPrice),
                     SubSeq(values, IF jumped THEN 4 ELSE 3, Len(values)))

\* runMonteCarloSimulation from path s on, as a function of its parameters
\* and of the values of the random source
RECURSIVE ReplaySims(_, _, _, _, _, _)
ReplaySims(im, p, s, pths, finals, values) ==
  IF s >= p.numSimulations
    THEN [returned |-> TRUE,
          paths |-> pths,
          finalPrices |-> SortAsc(finals),
          statistics |-> SimulationStatistics(SortAsc(finals), p.currentPrice)]
  ELSE LET one == ReplayDays(im, p, 1, p.currentPrice, <<p.currentPrice>>,
                             values)
       IN ReplaySims(im, p, s + 1, Append(pths, one.path),
                     Append(finals, one.price), one.rest)

\* the day loop of one portfolio path from day d on
RECURSIVE ReplayPortfolioDays(_, _, _, _)
ReplayPortfolioDays(d, pPath, cap, values) ==
  IF d > portfolioParams.timeHorizon
    THEN [portfolioPath |-> pPath, cap |-> cap, rest |-> values]
  ELSE LET n == Len(assetData)
           after ==
             DayFold(cap, assetData,
                     generateCorrelatedRandoms(n, correlations,
                                               SubSeq(values, 1, n)),
                     d, n)
       IN ReplayPortfolioDays(d + 1, Append(pPath, after.portfolioValue),
                              after.cap, SubSeq(values, n + 1, Len(values)))

\* the simulation loop of runPortfolioSimulation from path s on, as a
\* function of assetData, correlations, initialValue, the parameters and the
\* values randomNormal() returned
RECURSIVE ReplayPortfolio(_, _, _, _, _)
ReplayPortfolio(s, pPaths, finals, ap, values) ==
  IF s >= portfolioParams.numSimulations
    THEN [returned |-> TRUE,
          paths |-> pPaths,
          finalValues |-> finals,
          initialValue |-> initialValue,
          assetPaths |-> ap,
          statistics |-> PortfolioStatistics(finals, initialValue),
          riskMetrics |-> PortfolioRiskMetrics(finals, initialValue, pPaths)]
  ELSE LET one == ReplayPortfolioDays(1, <<initialValue>>,
                                      StartAssetPaths(assetData), values)
       IN ReplayPortfolio(s + 1, Append(pPaths, one.portfolioPath),
                          Append(finals,
                                 At(one.portfolioPath,
                                    Len(one.portfolioPath) - 1)),
                          StoreFold(ap, one.cap, assetData, Len(assetData)),
                          one.rest)

\* C19: what runMonteCarloSimulation and the simulation loop of
\* runPortfolioSimulation return is a function of the parameters and of the
\* sequence of values the random source returned: two runs that agree on
\* both return the same paths, final values and statistics
C19_Determinism ==
  /\ result.returned =>
       result = ReplaySims(impl, params, 0, <<>>, <<>>, randomValues)
  /\ portfolioResult.returned =>
       portfolioResult =
         ReplayPortfolio(0, <<>>, <<>>, [t \in TickersOf(assetData) |-> <<>>],
                         pRandomValues)

\* a jump-enhanced run of two paths that took a jump and returned
C19_Witness ==
  /\ result.returned
  /\ impl = "jump"
  /\ params.volatility > 0
  /\ params.numSimulations = 2
  /\ Len(randomValues) >= 5
  /\ \E i \in DOMAIN randomValues : randomValues[i] \in Uniforms
                                    /\ randomValues[i] < jumpIntensity
  /\ result.paths[1] # result.paths[2]

\* a portfolio run of two assets and two paths that returned
C19_PortfolioReached ==
  /\ portfolioResult.returned
  /\ Len(assetData) = 2
  /\ portfolioParams.numSimulations = 2
  /\ Len(pRandomValues) = 4
  /\ portfolioResult.paths[1] # portfolioResult.paths[2]

\* ==================================================== portfolio optimizers
MaxPoints == 2
MaxAssets == 3

\* weights that sum to 1 but favour the first asset
FirstAssetWeights(n) == [i \in 1 .. n |-> IF i = 1 THEN FP ELSE 0]

\* new Array(n).fill(1 / n)
EqualWeights(n) == [i \in 1 .. n |-> FDiv(FP, IntToF(n))]

\* optimizePortfolio of part_016
optimizePortfolio(assets, correlationMatrix, targetReturn) ==
  EqualWeights(Len(assets))

\* the terms of a double loop for i, for j over 0 .. n - 1, in loop order
RowOf(k, n) == (k - 1) \div n + 1
ColOf(k, n) == ((k - 1) % n) + 1

\* variance of meanVarianceOptimization
WeightedVariance(weights, covarianceMatrix) ==
  FSum([k \in 1 .. Len(weights) * Len(weights) |->
          FMul(FMul(weights[RowOf(k, Len(weights))],
                    weights[ColOf(k, Len(weights))]),
               At(At(covarianceMatrix, RowOf(k, Len(weights)) - 1),
                  ColOf(k, Len(weights)) - 1))])

\* weights.reduce((sum, w, i) => sum + w * values[i], 0)
WeightedSum(weights, values) ==
  FSum([i \in DOMAIN weights |-> FMul(weights[i], values[i])])

\* the metrics of meanVarianceOptimization from the weights on
OptimizationOf(weights, expectedReturn, volatility, weightedAvgVol, riskFreeRate) ==
  [weights |-> weights,
   expectedReturn |-> expectedReturn,
   volatility |-> volatility,
   sharpeRatio |->
     IF FLess(0, volatility)
       THEN FDiv(FSub(expectedReturn, riskFreeRate), volatility) ELSE 0,
   diversificationRatio |->
     IF FLess(0, weightedAvgVol) THEN FDiv(volatility, weightedAvgVol) ELSE FP]

\* meanVarianceOptimization past its early return
OptimizationWith(weights, expectedReturns, covarianceMatrix, riskFreeRate) ==
  OptimizationOf(
    weights,
    WeightedSum(weights, expectedReturns),
    FSqrt(WeightedVariance(weights, covarianceMatrix)),
    WeightedSum(weights,
                [i \in DOMAIN weights |->
                   FSqrt(At(At(covarianceMatrix, i - 1), i - 1))]),
    riskFreeRate)

\* PortfolioOptimizer.meanVarianceOptimization
meanVarianceOptimization(expectedReturns, covarianceMatrix, riskFreeRate) ==
  IF Len(expectedReturns) = 0 \/ Len(covarianceMatrix) # Len(expectedReturns)
    THEN [weights |-> <<>>, expectedReturn |-> 0, volatility |-> 0,
          sharpeRatio |-> 0, diversificationRatio |-> 0]
  ELSE OptimizationWith(EqualWeights(Len(expectedReturns)), expectedReturns,
                        covarianceMatrix, riskFreeRate)

\* calculatePortfolioVolatility of part_016
calculatePortfolioVolatility(weights, assets, correlationMatrix) ==
  FSqrt(FSum([k \in 1 .. Len(weights) * Len(weights) |->
                FMul(FMul(FMul(FMul(weights[RowOf(k, Len(weights))],
                                    weights[ColOf(k, Len(weights))]),
                               assets[RowOf(k, Len(weights))].volatility),
                          assets[ColOf(k, Len(weights))].volatility),
                     correlationMatrix[RowOf(k, Len(weights))]
                                      [ColOf(k, Len(weights))])]))

\* one point of the frontier from its weights
FrontierPointOf(weights, portfolioReturn, portfolioVolatility) ==
  [expectedReturn |-> portfolioReturn,
   volatility |-> portfolioVolatility,
   sharpeRatio |-> FDiv(portfolioReturn, portfolioVolatility),
   weights |-> weights]

\* portfolioReturn and portfolioVolatility of one iteration
FrontierPointWith(weights, data, correlationMatrix) ==
  FrontierPointOf(
    weights,
    WeightedSum(weights,
                [k \in DOMAIN data |-> data[k].expectedReturn]),
    calculatePortfolioVolatility(weights, data, correlationMatrix))

\* the point pushed in iteration i of calculateEfficientFrontier
FrontierPoint(data, correlationMatrix, numPoints, i) ==
  FrontierPointWith(
    optimizePortfolio(data, correlationMatrix,
                      FAdd(50, FMul(FDiv(IntToF(i), IntToF(numPoints)), 250))),
    data, correlationMatrix)

\* points.sort((a, b) => a.volatility - b.volatility): stable insertion
RECURSIVE InsertByVolatility(_, _)
InsertByVolatility(s, x) ==
  IF s = <<>> THEN <<x>>
  ELSE IF FLess(x.volatility, Head(s).volatility) THEN <<x>> \o s
  ELSE <<Head(s)>> \o InsertByVolatility(Tail(s), x)

RECURSIVE SortByVolatility(_)
SortByVolatility(s) ==
  IF s = <<>> THEN <<>>
  ELSE InsertByVolatility(SortByVolatility(SubSeq(s, 1, Len(s) - 1)),
                          s[Len(s)])

\* calculateEfficientFrontier after the fetches resolved to data
calculateEfficientFrontier(data, numPoints) ==
  SortByVolatility(
    [k \in 1 .. numPoints + 1 |->
       FrontierPoint(data, calculateCorrelationMatrix(data),
                     numPoints, k - 1)])

\* ---------------------------------------------------- optimizer inputs
ExpectedReturnLists ==
  UNION {[1 .. n -> {50, 120}] : n \in 0 .. MaxAssets}

\* covariance matrices of any dimension: zero, and 0.04 on the diagonal with
\* 0.01 off it
CovarianceMatrices ==
  UNION {{[i \in 1 .. n |-> [j \in 1 .. n |-> 0]],
          [i \in 1 .. n |-> [j \in 1 .. n |-> IF i = j THEN 40 ELSE 10]]} :
         n \in 0 .. MaxAssets}

FrontierAssets ==
  {AssetsOf(t, s) : t \in TickerLists \cup {<<>>, <<"XYZ", "JPM">>},
                    s \in SuppliedData}

OptimizerCalls ==
  {[op |-> "meanVarianceOptimization", expectedReturns |-> er,
    covarianceMatrix |-> cv, riskFreeRate |-> 20] :
     er \in ExpectedReturnLists, cv \in CovarianceMatrices}
  \cup
  {[op |-> "calculateEfficientFrontier", assets |-> a, numPoints |-> np] :
     a \in FrontierAssets, np \in -1 .. MaxPoints}

\* PortfolioOptimizer.meanVarianceOptimization(...)
MeanVarianceCall ==
  /\ libIn.op = "meanVarianceOptimization"
  /\ ~libOut.returned
  /\ libOut' = [returned |-> TRUE, kind |-> "meanVarianceOptimization",
                value |-> meanVarianceOptimization(libIn.expectedReturns,
                                                   libIn.covarianceMatrix,
                                                   libIn.riskFreeRate)]
  /\ UNCHANGED <<libIn, notLibVars>>

\* calculateEfficientFrontier(assets, numPoints): the fetches, then the points
FrontierCall ==
  /\ libIn.op = "calculateEfficientFrontier"
  /\ ~libOut.returned
  /\ \E fetched \in [DOMAIN libIn.assets -> GeneratedStockData
                       \cup {enhancedSampleData[t] : t \in DOMAIN enhancedSampleData}] :
       /\ \A i \in DOMAIN fetched :
            fetched[i] \in fetchRealStockData(libIn.assets[i].ticker)
       /\ libOut' =
            [returned |-> TRUE, kind |-> "calculateEfficientFrontier",
             value |->
               calculateEfficientFrontier(
                 [i \in DOMAIN libIn.assets |->
                    [ticker |-> libIn.assets[i].ticker,
                     weight |-> libIn.assets[i].weight,
                     currentPrice |-> libIn.assets[i].currentPrice,
                     expectedReturn |-> fetched[i].expectedReturn,
                     volatility |-> fetched[i].volatility]],
                 libIn.numPoints)]
  /\ UNCHANGED <<libIn, notLibVars>>

\* ------------------------------------------------------------------ C21
OptimizerReturned(kind) == libOut.returned /\ libOut.kind = kind

\* n weights, each 1/n, that sum to 1 up to the rounding of 1/n
IsEqualWeights(weights, n) ==
  /\ Len(weights) = n
  /\ \A i \in 1 .. n : weights[i] = FP \div n
  /\ FP - FSum(weights) \in 0 .. n

C21_FrontierReached ==
  /\ OptimizerReturned("calculateEfficientFrontier")
  /\ Len(libIn.assets) = 2
  /\ Len(libOut.value) = 3
  /\ libOut.value[3].weights = <<500, 500>>



\* =============================================== one day of correlated shocks
\* the asset lists of getPortfolioPresets
PresetTickers ==
  {<<"AAPL", "MSFT", "GOOGL", "AMZN">>,
   <<"AAPL", "JPM", "JNJ", "XOM", "TSLA">>,
   <<"JPM", "JNJ", "WMT", "PG">>}

StepTickerLists ==
  {<<"AAPL">>, <<"AAPL", "JPM">>, <<"XYZ", "JPM">>, <<"AAPL", "MSFT">>,
   <<"AAPL", "MSFT", "GOOGL">>} \cup PresetTickers

\* assetData of a list of tickers with equal weights; a ticker outside the
\* table gets one of the generated values
StepAssets(tickers) ==
  [i \in DOMAIN tickers |->
     LET fetched ==
           IF tickers[i] \in DOMAIN enhancedSampleData
             THEN enhancedSampleData[tickers[i]]
             ELSE [currentPrice |-> 50000, expectedReturn |-> 50,
                   volatility |-> 150]
     IN [ticker |-> tickers[i], weight |-> FP \div Len(tickers),
         currentPrice |-> fetched.currentPrice,
         expectedReturn |-> fetched.expectedReturn,
         volatility |-> fetched.volatility]]

CorrelatedStepCalls ==
  UNION {{[op |-> "correlatedStep", assets |-> StepAssets(t),
           correlations |-> m, uncorrelatedRandoms |-> u] :
            m \in {calculateCorrelationMatrix(StepAssets(t)), Identity(Len(t))},
            u \in [1 .. Len(t) -> Normals]} :
         t \in StepTickerLists}

\* the first day of the day loop for the assets of the call:
\* choleskyDecomposition, generateCorrelatedRandoms and the forEach over the
\* assets
CorrelatedStepCall ==
  /\ libIn.op = "correlatedStep"
  /\ ~libOut.returned
  /\ libOut' =
       [returned |-> TRUE, kind |-> "correlatedStep",
        L |-> choleskyDecomposition(libIn.correlations),
        randomNumbers |->
          generateCorrelatedRandoms(Len(libIn.assets), libIn.correlations,
                                    libIn.uncorrelatedRandoms),
        after |->
          DayFold(StartAssetPaths(libIn.assets), libIn.assets,
                  generateCorrelatedRandoms(Len(libIn.assets),
                                            libIn.correlations,
                                            libIn.uncorrelatedRandoms),
                  1, Len(libIn.assets))]
  /\ UNCHANGED <<libIn, notLibVars>>

\* ------------------------------------------------------------------ C22
StepReturned == libOut.returned /\ libOut.kind = "correlatedStep"

\* the sum over k <= i of L[i][k] * uncorrelated[k], added in the order of k
ShockSum(L, uncorrelated, i) ==
  FSum([k \in 1 .. i |-> FMul(L[i][k], uncorrelated[k])])

\* the single-asset step of one asset for the draw z
OwnStep(asset, z) ==
  FMul(asset.currentPrice,
       ExpFP(PlainChange([expectedReturn |-> asset.expectedReturn,
                          volatility |-> asset.volatility], z)))

\* C22: the matrix L of choleskyDecomposition is lower-triangular and each
\* correlated shock is the sum over k <= i of L[i][k] * uncorrelated[k]; for
\* an identity correlation matrix L is the identity, every shock is the
\* asset's own draw and every asset's new price is the single-asset step
\* applied to that draw
C22_CorrelatedShocks ==
  StepReturned =>
    LET n == Len(libIn.assets)
    IN /\ \A i, j \in 1 .. n : j > i => libOut.L[i][j] = 0
       /\ \A i \in 1 .. n :
            libOut.randomNumbers[i] =
              ShockSum(libOut.L, libIn.uncorrelatedRandoms, i)
       /\ libIn.correlations = Identity(n) =>
            /\ libOut.L = Identity(n)
            /\ libOut.randomNumbers = libIn.uncorrelatedRandoms
            /\ \A i \in 1 .. n :
                 libOut.after.cap[libIn.assets[i].ticker] =
                   <<libIn.assets[i].currentPrice,
                     OwnStep(libIn.assets[i], libIn.uncorrelatedRandoms[i])>>

\* two assets of different sectors under an identity matrix, unlike draws
C22_Witness ==
  /\ StepReturned
  /\ Len(libIn.assets) = 2
  /\ libIn.correlations = Identity(2)
  /\ libIn.uncorrelatedRandoms = <<1000, -1000>>
  /\ libOut.randomNumbers = <<1000, -1000>>
  /\ Len(libOut.after.cap["JPM"]) = 2

\* two assets of different sectors under their sector correlation
C22_CorrelatedReached ==
  /\ StepReturned
  /\ Len(libIn.assets) = 2
  /\ libIn.correlations[2][1] = 300
  /\ libOut.L[2][1] = 300
  /\ libOut.L[2][2] \in 950 .. 956
  /\ libOut.L[1][2] = 0

\* ------------------------------------------------------------------ C23
SectorStep ==
  StepReturned /\ libIn.correlations = calculateCorrelationMatrix(libIn.assets)

\* the sector matrix is square and symmetric with a unit diagonal
C23_MatrixShape ==
  SectorStep =>
    LET n == Len(libIn.assets)
        m == libIn.correlations
    IN /\ Len(m) = n
       /\ \A i \in 1 .. n : Len(m[i]) = n /\ m[i][i] = FP
       /\ \A i, j \in 1 .. n : m[i][j] = m[j][i]

\* C23: for every asset list, the presets of getPortfolioPresets included,
\* the Cholesky factor of the sector matrix is computed without a division
\* by a zero pivot, and every entry of L and every simulated price is finite
C23_FiniteFactor ==
  SectorStep =>
    LET n == Len(libIn.assets)
    IN /\ \A i, j \in 1 .. n : j < i => libOut.L[j][j] # 0
       /\ \A i, j \in 1 .. n : IsFiniteNum(libOut.L[i][j])
       /\ \A i \in 1 .. n :
            \A k \in DOMAIN libOut.after.cap[libIn.assets[i].ticker] :
              IsFiniteNum(libOut.after.cap[libIn.assets[i].ticker][k])

\* the preset "S&P 500 Tech Giants": the second pivot is zero and the third
\* row of L is not a number
C23_TechGiants ==
  /\ SectorStep
  /\ Len(libIn.assets) = 4
  /\ [i \in 1 .. 4 |-> libIn.assets[i].ticker] =
       <<"AAPL", "MSFT", "GOOGL", "AMZN">>
  /\ libOut.L[2][2] = 0
  /\ IsNaN(libOut.L[3][2])
  /\ IsNaN(libOut.after.cap["GOOGL"][2])

\* ------------------------------------------------------------------ C24
\* C24: in the result of runMonteCarloSimulation finalPrices[i] is the last
\* element of paths[i] for every i (exportToCSV writes the two on one row)
C24_FinalPriceOfPath ==
  result.returned =>
    /\ Len(result.finalPrices) = Len(result.paths)
    /\ \A i \in DOMAIN result.paths :
         result.finalPrices[i] = result.paths[i][Len(result.paths[i])]

\* the same for finalValues[i] and paths[i] of runPortfolioSimulation
C24_FinalValueOfPath ==
  portfolioResult.returned =>
    /\ Len(portfolioResult.finalValues) = Len(portfolioResult.paths)
    /\ \A i \in DOMAIN portfolioResult.paths :
         portfolioResult.finalValues[i] =
           portfolioResult.paths[i][Len(portfolioResult.paths[i])]

\* two paths of runMonteCarloSimulation, the first ending above the second:
\* the sort has exchanged their final prices
C24_Exchanged ==
  /\ result.returned
  /\ Len(result.paths) = 2
  /\ FLess(result.paths[2][Len(result.paths[2])],
           result.paths[1][Len(result.paths[1])])
  /\ result.finalPrices[1] = result.paths[2][Len(result.paths[2])]
  /\ result.finalPrices[2] = result.paths[1][Len(result.paths[1])]

\* two portfolio paths, the first ending above the second, in path order
C24_PortfolioReached ==
  /\ portfolioResult.returned
  /\ Len(portfolioResult.paths) = 2
  /\ FLess(portfolioResult.finalValues[2], portfolioResult.finalValues[1])

\* ================================================== the trading strategies
\* the null of sma, ema and rsi
Null == Undefined + 1

\* !x for a number or null
Falsy(x) == x = Null \/ x = 0 \/ IsNaN(x)

\* Math.floor
MathFloor(x) == IF IsFiniteNum(x) THEN (x \div FP) * FP ELSE x

\* Math.pow(base, exponent) for exponent > 0
MathPow(base, exponent) ==
  IF IsNaN(base) \/ IsNaN(exponent) THEN NaN
  ELSE IF base = 0 THEN 0
  ELSE IF base > 0
    THEN (IF FMul(exponent, LnFP(base)) > 20 * FP THEN PInf
          ELSE ExpFP(FMul(exponent, LnFP(base))))
  ELSE IF exponent % FP # 0 THEN NaN
  ELSE IF FMul(exponent, LnFP(-base)) > 20 * FP
    THEN (IF (exponent \div FP) % 2 = 0 THEN PInf ELSE NInf)
  ELSE IF (exponent \div FP) % 2 = 0
    THEN ExpFP(FMul(exponent, LnFP(-base)))
  ELSE -ExpFP(FMul(exponent, LnFP(-base)))

\* prices.slice(from, to) for 0 <= from
Slice(prices, from, to) == SubSeq(prices, from + 1, to)

sma(prices, period, index) ==
  IF index < period - 1 THEN Null
  ELSE FDiv(FSum(Slice(prices, index - period + 1, index + 1)),
            IntToF(period))

\* the change of the k-th bar of the window of rsi
WindowChange(prices, period, index, k) ==
  FSub(At(prices, index - period + k), At(prices, index - period + k - 1))

gains(prices, period, index) ==
  FSum([k \in 1 .. period |->
          IF FLess(0, WindowChange(prices, period, index, k))
            THEN WindowChange(prices, period, index, k) ELSE 0])

losses(prices, period, index) ==
  FSum([k \in 1 .. period |->
          IF FLess(0, WindowChange(prices, period, index, k))
            THEN 0 ELSE FNeg(WindowChange(prices, period, index, k))])

RsiFrom(avgGain, avgLoss) ==
  IF avgLoss = 0 THEN IntToF(100)
  ELSE FSub(IntToF(100),
            FDiv(IntToF(100), FAdd(FP, FDiv(avgGain, avgLoss))))

rsi(prices, period, index) ==
  IF index < period THEN Null
  ELSE RsiFrom(FDiv(gains(prices, period, index), IntToF(period)),
               FDiv(losses(prices, period, index), IntToF(period)))

SquaredDeviations(slice, mean) ==
  FSum([k \in DOMAIN slice |->
          FMul(FSub(slice[k], mean), FSub(slice[k], mean))])

BandsFrom(mean, std, stdDev) ==
  [defined |-> TRUE,
   upper |-> FAdd(mean, FMul(std, stdDev)),
   middle |-> mean,
   lower |-> FSub(mean, FMul(std, stdDev))]

bollinger(prices, period, stdDev, index) ==
  IF Falsy(sma(prices, period, index)) THEN [defined |-> FALSE]
  ELSE BandsFrom(
         sma(prices, period, index),
         FSqrt(FDiv(SquaredDeviations(
                      Slice(prices, index - period + 1, index + 1),
                      sma(prices, period, index)),
                    IntToF(period))),
         stdDev)

\* the constructors
MovingAverageCrossover(fastPeriod, slowPeriod) ==
  [name |-> "Moving Average Crossover",
   parameters |-> [fastPeriod |-> fastPeriod, slowPeriod |-> slowPeriod,
                   positionSize |-> 950]]

RSIMeanReversion(rsiPeriod, oversoldLevel, overboughtLevel) ==
  [name |-> "RSI Mean Reversion",
   parameters |-> [rsiPeriod |-> rsiPeriod, oversoldLevel |-> oversoldLevel,
                   overboughtLevel |-> overboughtLevel,
                   positionSize |-> 500]]

BollingerBands(period, stdDev) ==
  [name |-> "Bollinger Bands",
   parameters |-> [period |-> period, stdDev |-> stdDev,
                   positionSize |-> 800]]

\* !position || position.quantity === 0
NoneHeld(position) == position = <<>> \/ position[1].quantity = 0

\* position && position.quantity > 0
SomeHeld(position) == position # <<>> /\ FLess(0, position[1].quantity)

CrossoverFrom(fastMA, slowMA, prevFastMA, prevSlowMA, position) ==
  IF Falsy(fastMA) \/ Falsy(slowMA) \/ Falsy(prevFastMA) \/ Falsy(prevSlowMA)
    THEN "HOLD"
  ELSE IF FLessEq(prevFastMA, prevSlowMA) /\ FLess(slowMA, fastMA)
            /\ NoneHeld(position)
    THEN "BUY"
  ELSE IF FLessEq(prevSlowMA, prevFastMA) /\ FLess(fastMA, slowMA)
            /\ SomeHeld(position)
    THEN "SELL"
  ELSE "HOLD"

MovingAverageSignal(parameters, closePrices, currentIndex, position) ==
  CrossoverFrom(sma(closePrices, parameters.fastPeriod, currentIndex),
                sma(closePrices, parameters.slowPeriod, currentIndex),
                sma(closePrices, parameters.fastPeriod, currentIndex - 1),
                sma(closePrices, parameters.slowPeriod, currentIndex - 1),
                position)

\* if (!rsi): true for null and for an RSI of 0
RsiMissing(value) == Falsy(value)

RsiSignalFrom(parameters, value, position) ==
  IF RsiMissing(value) THEN "HOLD"
  ELSE IF FLess(value, parameters.oversoldLevel) /\ NoneHeld(position)
    THEN "BUY"
  ELSE IF FLess(parameters.overboughtLevel, value) /\ SomeHeld(position)
    THEN "SELL"
  ELSE "HOLD"

RSISignal(parameters, closePrices, currentIndex, position) ==
  RsiSignalFrom(parameters,
                rsi(closePrices, parameters.rsiPeriod, currentIndex),
                position)

BandsSignalFrom(bands, currentPrice, position) ==
  IF ~bands.defined THEN "HOLD"
  ELSE IF FLessEq(currentPrice, bands.lower) /\ NoneHeld(position)
    THEN "BUY"
  ELSE IF FLessEq(bands.upper, currentPrice) /\ SomeHeld(position)
    THEN "SELL"
  ELSE "HOLD"

BollingerSignal(parameters, closePrices, currentIndex, position) ==
  BandsSignalFrom(bollinger(closePrices, parameters.period, parameters.stdDev,
                            currentIndex),
                  At(closePrices, currentIndex), position)

generateSignal(strategy, closePrices, currentIndex, position) ==
  IF strategy.name = "Moving Average Crossover"
    THEN MovingAverageSignal(strategy.parameters, closePrices, currentIndex,
                             position)
  ELSE IF strategy.name = "RSI Mean Reversion"
    THEN RSISignal(strategy.parameters, closePrices, currentIndex, position)
  ELSE BollingerSignal(strategy.parameters, closePrices, currentIndex,
                       position)

\* SELL sizes that leave half of the position
SellQuantityHalf(currentPosition) ==
  MathFloor(FDiv(currentPosition[1].quantity, IntToF(2)))

SellQuantity(currentPosition) == currentPosition[1].quantity

\* the same in the three strategies
getPositionSize(strategy, signal, currentPrice, availableCash, currentPosition) ==
  IF signal = "BUY"
    THEN MathFloor(FDiv(FMul(availableCash, strategy.parameters.positionSize),
                        currentPrice))
  ELSE IF signal = "SELL" /\ currentPosition # <<>>
    THEN SellQuantity(currentPosition)
  ELSE 0

\* ============================================================ runBacktest
MaxBars == 4

\* the daily changes of generateHistoricalData, within
\* (Math.random() - 0.5) * dailyVolatility + drift
DailyChanges == {-9, 2, 10}

TradingStrategies ==
  {MovingAverageCrossover(1, 2), RSIMeanReversion(2, 30000, 70000),
   BollingerBands(2, FP)}

InitialCapitals == {0, 205000, 1000000}

Commissions == {0, 105000}

Slippages == {0, 10}

BacktestCalls ==
  [op : {"runBacktest"}, strategy : TradingStrategies,
   initialCapital : InitialCapitals, commission : Commissions,
   slippage : Slippages, bars : 0 .. MaxBars]

\* the open of the next bar: 100 at first, then the last close
OpenOf(data) == IF data = <<>> THEN IntToF(100) ELSE data[Len(data)]

TradeOf(in, signal, close, quantity) ==
  [type |-> signal,
   price |-> FMul(close, IF signal = "BUY" THEN FAdd(FP, in.slippage)
                         ELSE FSub(FP, in.slippage)),
   quantity |-> quantity,
   commission |-> in.commission,
   slippage |-> FMul(FMul(close, in.slippage), quantity)]

Untraded(cash, position) ==
  [cash |-> cash, position |-> position, trades |-> <<>>]

HeldQuantity(position) ==
  IF position = <<>> THEN 0 ELSE OrZero(position[1].quantity)

AvgPriceAfter(trade, position) ==
  IF position = <<>> THEN trade.price
  ELSE FDiv(FAdd(FMul(position[1].avgPrice, position[1].quantity),
                 FMul(trade.price, trade.quantity)),
            FAdd(position[1].quantity, trade.quantity))

BuyWith(trade, totalCost, cash, position) ==
  IF FLessEq(totalCost, cash)
    THEN [cash |-> FSub(cash, totalCost),
          position |->
            <<[quantity |-> FAdd(HeldQuantity(position), trade.quantity),
               avgPrice |-> AvgPriceAfter(trade, position),
               unrealizedPnL |-> 0,
               realizedPnL |->
                 IF position = <<>> THEN 0
                 ELSE OrZero(position[1].realizedPnL)]>>,
          trades |-> <<trade>>]
  ELSE Untraded(cash, position)

Buy(trade, cash, position) ==
  BuyWith(trade, FAdd(FMul(trade.price, trade.quantity), trade.commission),
          cash, position)

SoldPosition(trade, held) ==
  IF FSub(held.quantity, trade.quantity) = 0 THEN <<>>
  ELSE <<[held EXCEPT
            !.realizedPnL =
              FAdd(@, FSub(FMul(FSub(trade.price, held.avgPrice),
                                trade.quantity),
                           trade.commission)),
            !.quantity = FSub(@, trade.quantity)]>>

Sell(trade, cash, position) ==
  IF position # <<>> /\ FLessEq(trade.quantity, position[1].quantity)
    THEN [cash |-> FAdd(cash, FSub(FMul(trade.price, trade.quantity),
                                   trade.commission)),
          position |-> SoldPosition(trade, position[1]),
          trades |-> <<trade>>]
  ELSE Untraded(cash, position)

\* the body of if (signal !== 'HOLD')
Traded(in, signal, close, quantity, cash, position) ==
  IF signal = "HOLD" \/ ~FLess(0, quantity) THEN Untraded(cash, position)
  ELSE IF signal = "BUY"
    THEN Buy(TradeOf(in, signal, close, quantity), cash, position)
  ELSE Sell(TradeOf(in, signal, close, quantity), cash, position)

\* the update of portfolio value, peak, drawdown and unrealized PnL
ValuedWith(after, close, portfolioValue, newPeak) ==
  [cash |-> after.cash,
   position |->
     IF after.position = <<>> THEN <<>>
     ELSE <<[after.position[1] EXCEPT
               !.unrealizedPnL =
                 FMul(FSub(close, after.position[1].avgPrice),
                      after.position[1].quantity)]>>,
   trades |-> after.trades,
   peak |-> newPeak,
   entry |-> [value |-> portfolioValue,
              drawdown |-> FDiv(FSub(newPeak, portfolioValue), newPeak)]]

ValuedAt(after, close, portfolioValue, oldPeak) ==
  ValuedWith(after, close, portfolioValue,
             IF FLess(oldPeak, portfolioValue) THEN portfolioValue
             ELSE oldPeak)

Valued(after, close, oldPeak) ==
  ValuedAt(after, close,
           FAdd(after.cash,
                IF after.position = <<>> THEN 0
                ELSE FMul(after.position[1].quantity, close)),
           oldPeak)

BarWith(in, signal, close, cash, position, oldPeak) ==
  Valued(Traded(in, signal, close,
                getPositionSize(in.strategy, signal, close, cash, position),
                cash, position),
         close, oldPeak)

\* one pass of the loop over historicalData
BarOf(in, data, i, cash, position, oldPeak) ==
  BarWith(in, generateSignal(in.strategy, data, i, position), At(data, i),
          cash, position, oldPeak)

\* ---- calculatePerformanceMetrics
ValuesOf(portfolioValues) ==
  [k \in DOMAIN portfolioValues |-> portfolioValues[k].value]

BarReturns(values) ==
  [k \in 1 .. Len(values) - 1 |->
     FDiv(FSub(values[k + 1], values[k]), values[k])]

VarianceOf(returns, avgReturn) ==
  FDiv(SquaredDeviations(returns, avgReturn), IntToF(Len(returns)))

DownsideVariance(returns) ==
  FDiv(FSum([k \in DOMAIN returns |->
               IF FLess(returns[k], 0) THEN FMul(returns[k], returns[k])
               ELSE 0]),
       IntToF(Len(returns)))

RatioTo(annualizedReturn, deviation) ==
  IF FLess(0, deviation) THEN FDiv(FSub(annualizedReturn, 20), deviation)
  ELSE 0

SellsOf(trades) == SelectSeq(trades, LAMBDA t : t.type = "SELL")

\* the amounts price * quantity of a list of trades, summed
AmountOf(trades) ==
  FSum([k \in DOMAIN trades |-> FMul(trades[k].price, trades[k].quantity)])

\* winningTrades.length / (winningTrades.length + losingTrades.length) for a
\* non-empty trade list
WinRatio(winningTrades, losingTrades) ==
  FDiv(IntToF(Len(winningTrades)),
       FAdd(IntToF(Len(winningTrades)), IntToF(Len(losingTrades))))

\* the returned record, from the intermediate values
MetricsWith(trades, winningTrades, losingTrades, totalReturn, annualizedReturn, volatility, downsideDeviation, maxDrawdown) ==
  [totalReturn |-> totalReturn,
   annualizedReturn |-> annualizedReturn,
   sharpeRatio |-> RatioTo(annualizedReturn, volatility),
   sortinoRatio |-> RatioTo(annualizedReturn, downsideDeviation),
   maxDrawdown |-> maxDrawdown,
   volatility |-> volatility,
   winRate |->
     IF Len(trades) > 0 THEN WinRatio(winningTrades, losingTrades) ELSE 0,
   profitFactor |->
     IF FLess(0, AmountOf(losingTrades))
       THEN FDiv(AmountOf(winningTrades), AmountOf(losingTrades))
     ELSE IF FLess(0, AmountOf(winningTrades)) THEN PInf ELSE 0,
   calmarRatio |->
     IF FLess(0, maxDrawdown) THEN FDiv(annualizedReturn, maxDrawdown)
     ELSE 0,
   totalTrades |-> Len(trades),
   avgTrade |->
     IF Len(trades) > 0 THEN FDiv(totalReturn, IntToF(Len(trades))) ELSE 0,
   bestTrade |-> MathMax([k \in DOMAIN trades |-> trades[k].price] \o <<0>>),
   worstTrade |-> MathMin([k \in DOMAIN trades |-> trades[k].price] \o <<0>>),
   avgWinningTrade |->
     IF Len(winningTrades) > 0
       THEN FDiv(AmountOf(winningTrades), IntToF(Len(winningTrades)))
     ELSE 0,
   avgLosingTrade |->
     IF Len(losingTrades) > 0
       THEN FDiv(AmountOf(losingTrades), IntToF(Len(losingTrades)))
     ELSE 0,
   consecutiveWins |-> 0,
   consecutiveLosses |-> 0]

MetricsFrom(trades, portfolioValues, returns, totalReturn) ==
  MetricsWith(
    trades, SellsOf(trades), <<>>, totalReturn,
    FSub(MathPow(FAdd(FP, totalReturn),
                 FDiv(IntToF(252), IntToF(Len(portfolioValues)))),
         FP),
    FSqrt(FMul(VarianceOf(returns,
                          FDiv(FSum(returns), IntToF(Len(returns)))),
               IntToF(252))),
    FSqrt(FMul(DownsideVariance(returns), IntToF(252))),
    MathMax([k \in DOMAIN portfolioValues |-> portfolioValues[k].drawdown]))

getEmptyMetrics ==
  [totalReturn |-> 0, annualizedReturn |-> 0, sharpeRatio |-> 0,
   sortinoRatio |-> 0, maxDrawdown |-> 0, volatility |-> 0, winRate |-> 0,
   profitFactor |-> 0, calmarRatio |-> 0, totalTrades |-> 0, avgTrade |-> 0,
   bestTrade |-> 0, worstTrade |-> 0, avgWinningTrade |-> 0,
   avgLosingTrade |-> 0, consecutiveWins |-> 0, consecutiveLosses |-> 0]

calculatePerformanceMetrics(trades, portfolioValues, initialCapital) ==
  IF Len(portfolioValues) = 0 THEN getEmptyMetrics
  ELSE MetricsFrom(trades, portfolioValues,
                   BarReturns(ValuesOf(portfolioValues)),
                   FDiv(FSub(portfolioValues[Len(portfolioValues)].value,
                             initialCapital),
                        initialCapital))

\* ---- the steps of runBacktest
\* one pass of the loop of generateHistoricalData that pushes a bar
GenerateBar ==
  /\ btPc = "data"
  /\ Len(btData) < btIn.bars
  /\ \E change \in DailyChanges :
       btData' = Append(btData, FMul(OpenOf(btData), FAdd(FP, change)))
  /\ UNCHANGED <<btIn, btPc, btBar, btCash, btPosition, btPeak, btTrades,
                 btSignals, btValues, btOut, notBtVars>>

\* generateHistoricalData returns; the locals of runBacktest
BeginBacktest ==
  /\ btPc = "data"
  /\ Len(btData) >= btIn.bars
  /\ btPc' = "loop"
  /\ btBar' = 0
  /\ btCash' = btIn.initialCapital
  /\ btPosition' = <<>>
  /\ btPeak' = btIn.initialCapital
  /\ btTrades' = <<>>
  /\ btSignals' = <<>>
  /\ btValues' = <<>>
  /\ UNCHANGED <<btIn, btData, btOut, notBtVars>>

Bar ==
  /\ btPc = "loop"
  /\ btBar < Len(btData)
  /\ LET after == BarOf(btIn, btData, btBar, btCash, btPosition, btPeak)
     IN /\ btCash' = after.cash
        /\ btPosition' = after.position
        /\ btPeak' = after.peak
        /\ btTrades' = btTrades \o after.trades
        /\ btValues' = Append(btValues, after.entry)
  /\ btSignals' =
       Append(btSignals,
              [signal |-> generateSignal(btIn.strategy, btData, btBar,
                                         btPosition),
               price |-> At(btData, btBar)])
  /\ btBar' = btBar + 1
  /\ UNCHANGED <<btIn, btPc, btData, btOut, notBtVars>>

BacktestReturn ==
  /\ btPc = "loop"
  /\ btBar >= Len(btData)
  /\ btOut' = [returned |-> TRUE,
               trades |-> btTrades,
               positions |-> btPosition,
               portfolioValues |-> btValues,
               performance |->
                 calculatePerformanceMetrics(btTrades, btValues,
                                             btIn.initialCapital),
               signals |-> btSignals]
  /\ btPc' = "returned"
  /\ UNCHANGED <<btIn, btData, btBar, btCash, btPosition, btPeak, btTrades,
                 btSignals, btValues, notBtVars>>

InitBacktest ==
  /\ SimIdle /\ StatIdle /\ PortIdle /\ OptIdle /\ NoRandomNormal
  /\ LibIdle /\ StoreIdle
  /\ btIn \in BacktestCalls
  /\ btPc = "data"
  /\ btData = <<>>
  /\ btBar = 0
  /\ btCash = 0
  /\ btPosition = <<>>
  /\ btPeak = 0
  /\ btTrades = <<>>
  /\ btSignals = <<>>
  /\ btValues = <<>>
  /\ btOut = NoResult

NextBacktest == GenerateBar \/ BeginBacktest \/ Bar \/ BacktestReturn

SpecBacktest == InitBacktest /\ [][NextBacktest]_vars

\* ------------------------------------------------------------------ C25
InBacktest == btPc \in {"loop", "returned"}

\* C25: for initialCapital >= 0, commission >= 0, slippage in [0,1) and
\* positive closes, cash is >= 0 after every bar of runBacktest
C25_CashNonNegative == InBacktest => FLessEq(0, btCash)

\* a BUY is recorded only when price * quantity + commission <= cash, and it
\* leaves cash >= 0
C25_BuyWithinCash ==
  [][(Bar /\ Len(btTrades') > Len(btTrades)
          /\ btTrades'[Len(btTrades')].type = "BUY")
       => /\ FLessEq(FAdd(FMul(btTrades'[Len(btTrades')].price,
                               btTrades'[Len(btTrades')].quantity),
                          btIn.commission),
                     btCash)
          /\ FLessEq(0, btCash')]_vars

\* a SELL whose commission exceeds its proceeds has driven cash below 0
C25_SellBelowZero ==
  /\ InBacktest
  /\ btIn.strategy = MovingAverageCrossover(1, 2)
  /\ Len(btTrades) = 2
  /\ btTrades[2].type = "SELL"
  /\ FLess(FMul(btTrades[2].price, btTrades[2].quantity), btIn.commission)
  /\ FLess(btCash, 0)

\* ------------------------------------------------------------------ C26
\* C26: with the built-in strategies the recorded trades alternate BUY,
\* SELL, BUY, ... starting with BUY; every SELL sells the whole quantity of
\* the BUY before it, a position is held exactly between a BUY and its SELL,
\* and a held quantity is positive
C26_TradesAlternate ==
  InBacktest =>
    /\ \A k \in DOMAIN btTrades :
         /\ btTrades[k].type = (IF k % 2 = 1 THEN "BUY" ELSE "SELL")
         /\ k % 2 = 0 => btTrades[k].quantity = btTrades[k - 1].quantity
    /\ (btPosition = <<>>) = (Len(btTrades) % 2 = 0)
    /\ btPosition # <<>> =>
         /\ FLess(0, btPosition[1].quantity)
         /\ btPosition[1].quantity = btTrades[Len(btTrades)].quantity

\* a BUY of several shares followed by the SELL of all of them
C26_Witness ==
  /\ InBacktest
  /\ Len(btTrades) = 2
  /\ btTrades[1].type = "BUY"
  /\ btTrades[1].quantity > FP
  /\ btTrades[2].type = "SELL"
  /\ btTrades[2].quantity = btTrades[1].quantity
  /\ btPosition = <<>>

\* a BUY signal whose order is not executed leaves the trade list empty
C26_RejectedBuy ==
  /\ InBacktest
  /\ btTrades = <<>>
  /\ \E k \in DOMAIN btSignals : btSignals[k].signal = "BUY"

\* ------------------------------------------------------------------ C27
BacktestReturned == btOut.returned /\ btIn.bars >= 1

\* the largest per-bar drawdown of the values, with the peak a running
\* maximum that starts at the initial capital
RECURSIVE LargestDrawdown(_, _, _)
LargestDrawdown(values, k, runningPeak) ==
  IF k > Len(values) THEN NInf
  ELSE LET nextPeak == IF FLess(runningPeak, values[k]) THEN values[k]
                       ELSE runningPeak
           here == FDiv(FSub(nextPeak, values[k]), nextPeak)
           rest == LargestDrawdown(values, k + 1, nextPeak)
       IN IF IsNaN(here) \/ IsNaN(rest) THEN NaN
          ELSE IF here > rest THEN here ELSE rest

\* C27: for a backtest of at least one bar the winRate of the returned
\* performance is a number in [0,1], whatever the trade list
C27_WinRateDefined ==
  BacktestReturned =>
    /\ FLessEq(0, btOut.performance.winRate)
    /\ FLessEq(btOut.performance.winRate, FP)

\* the drawdown half: maxDrawdown is the largest per-bar drawdown
C27_MaxDrawdown ==
  BacktestReturned =>
    btOut.performance.maxDrawdown =
      LargestDrawdown(ValuesOf(btOut.portfolioValues), 1, btIn.initialCapital)

\* a backtest of one bar has no bar-to-bar return: volatility is the
\* square root of 0 / 0
C27_SingleBar ==
  /\ BacktestReturned
  /\ btIn.bars = 1
  /\ btIn.initialCapital > 0
  /\ IsNaN(btOut.performance.volatility)

\* a single BUY and no SELL: winRate is 0 / 0
C27_BuyOnly ==
  /\ BacktestReturned
  /\ Len(btOut.trades) = 1
  /\ btOut.trades[1].type = "BUY"
  /\ IsNaN(btOut.performance.winRate)
  /\ btIn.initialCapital > 0

\* a drawdown after a BUY whose price fell
C27_DrawdownReached ==
  /\ BacktestReturned
  /\ FLess(0, btOut.performance.maxDrawdown)
  /\ btOut.performance.maxDrawdown =
       LargestDrawdown(ValuesOf(btOut.portfolioValues), 1, btIn.initialCapital)

\* ------------------------------------------------------------------ C28
\* the loop of runBacktest is about to ask an RSIMeanReversion for the
\* signal of a bar with index >= rsiPeriod
RsiBar ==
  /\ btPc = "loop"
  /\ btBar < Len(btData)
  /\ btIn.strategy.name = "RSI Mean Reversion"
  /\ btBar >= btIn.strategy.parameters.rsiPeriod

RsiNow == rsi(btData, btIn.strategy.parameters.rsiPeriod, btBar)

SignalNow == generateSignal(btIn.strategy, btData, btBar, btPosition)

\* C28: at every bar index >= rsiPeriod with the RSI below oversoldLevel and
\* no position held, generateSignal of RSIMeanReversion returns 'BUY', an
\* RSI of 0 included
C28_OversoldBuys ==
  (RsiBar /\ FLess(RsiNow, btIn.strategy.parameters.oversoldLevel)
          /\ NoneHeld(btPosition))
    => SignalNow = "BUY"

\* the SELL half: RSI above overboughtLevel with a position held
C28_OverboughtSells ==
  (RsiBar /\ FLess(btIn.strategy.parameters.overboughtLevel, RsiNow)
          /\ SomeHeld(btPosition))
    => SignalNow = "SELL"

\* every change of the window is a loss: the RSI is 0 and the signal HOLD
C28_AllLosses ==
  /\ RsiBar
  /\ btData[btBar + 1] < btData[btBar]
  /\ btData[btBar] < btData[btBar - 1]
  /\ RsiNow = 0
  /\ btPosition = <<>>
  /\ SignalNow = "HOLD"

\* an RSI between 0 and oversoldLevel buys
C28_OversoldReached ==
  /\ RsiBar
  /\ FLess(0, RsiNow)
  /\ FLess(RsiNow, btIn.strategy.parameters.oversoldLevel)
  /\ btPosition = <<>>
  /\ SignalNow = "BUY"

\* an RSI of 100 with a position held sells
C28_OverboughtReached ==
  /\ RsiBar
  /\ RsiNow = IntToF(100)
  /\ SomeHeld(btPosition)
  /\ SignalNow = "SELL"

\* the BUY half for an RSI strictly between 0 and oversoldLevel
C28_OversoldAboveZero ==
  (RsiBar /\ FLess(0, RsiNow)
          /\ FLess(RsiNow, btIn.strategy.parameters.oversoldLevel)
          /\ NoneHeld(btPosition))
    => SignalNow = "BUY"

\* ========================================================= scenario store
MaxCalls == 3

\* scenario names typed by the user; the last two are also members of
\* Object.prototype
ScenarioNames == {"base", "bull", "constructor", "__proto__"}

PrototypeMembers == {"constructor", "__proto__"}

\* scenario data: objects with number fields, one of them with a value that
\* JSON cannot write
ScenarioData ==
  {[f \in {"timeHorizon", "averageEndingPrice"} |->
      IF f = "timeHorizon" THEN 30 ELSE v] : v \in {150000, NaN}}

\* the item of localStorage: absent, a text that JSON.parse rejects, or the
\* text of an object
NoItem == [kind |-> "null"]

Unreadable == [kind |-> "text", readable |-> FALSE]

\* JSON.stringify of a value with number fields: a field that is undefined
\* is left out, a number that is not finite is written as null
StringifyValue(value) ==
  [f \in {g \in DOMAIN value : value[g] # Undefined} |->
     IF IsFiniteNum(value[f]) THEN value[f] ELSE Null]

\* JSON.stringify(scenarios): the own properties only
Stringify(scenarios) ==
  [kind |-> "text", readable |-> TRUE,
   json |-> [n \in DOMAIN scenarios.own |-> StringifyValue(scenarios.own[n])]]

\* JSON.parse of a text written by Stringify: an object with these own
\* properties and the prototype Object.prototype
Parse(text) == [own |-> text.json, proto |-> <<>>]

EmptyObject == [own |-> <<>>, proto |-> <<>>]

getStoredScenarios(item) ==
  IF item.kind = "null" THEN EmptyObject
  ELSE IF ~item.readable THEN EmptyObject
  ELSE Parse(item)

\* scenarios[name]
Get(scenarios, name) ==
  IF name \in DOMAIN scenarios.own
    THEN [kind |-> "own", value |-> scenarios.own[name]]
  ELSE IF name \in PrototypeMembers
    THEN [kind |-> "inherited", name |-> name]
  ELSE [kind |-> "undefined"]

\* scenarios[name] = value that always creates an own property
AssignOwn(scenarios, name, value) ==
  [scenarios EXCEPT
     !.own = [n \in DOMAIN scenarios.own \cup {name} |->
                IF n = name THEN value ELSE scenarios.own[n]]]

\* scenarios[name] = value for an object value: the name __proto__ sets the
\* prototype, the name of another inherited member shadows it
Assign(scenarios, name, value) ==
  IF name = "__proto__" THEN [scenarios EXCEPT !.proto = <<value>>]
  ELSE AssignOwn(scenarios, name, value)

\* delete scenarios[name]
Delete(scenarios, name) ==
  [scenarios EXCEPT
     !.own = [n \in DOMAIN scenarios.own \ {name} |-> scenarios.own[n]]]

\* {...data, savedAt}
WithSavedAt(data, savedAt) ==
  [f \in DOMAIN data \cup {"savedAt"} |->
     IF f = "savedAt" THEN savedAt ELSE data[f]]

\* scenarios[name] || null
loadScenario(item, name) ==
  IF Get(getStoredScenarios(item), name).kind = "undefined"
    THEN [kind |-> "null"]
  ELSE Get(getStoredScenarios(item), name)

\* the clock read by new Date(): the number of the call
Now == Len(storeLog) + 1

SaveScenario ==
  /\ Len(storeLog) < MaxCalls
  /\ \E name \in ScenarioNames, data \in ScenarioData :
       /\ stored' = Stringify(Assign(getStoredScenarios(stored), name,
                                     WithSavedAt(data, Now)))
       /\ storeLog' = Append(storeLog,
                             [call |-> "saveScenario", name |-> name,
                              data |-> WithSavedAt(data, Now)])
  /\ UNCHANGED notStoreVars

LoadScenario ==
  /\ Len(storeLog) < MaxCalls
  /\ \E name \in ScenarioNames :
       storeLog' = Append(storeLog,
                          [call |-> "loadScenario", name |-> name,
                           returned |-> loadScenario(stored, name)])
  /\ UNCHANGED <<stored, notStoreVars>>

DeleteScenario ==
  /\ Len(storeLog) < MaxCalls
  /\ \E name \in ScenarioNames :
       /\ stored' = Stringify(Delete(getStoredScenarios(stored), name))
       /\ storeLog' = Append(storeLog,
                             [call |-> "deleteScenario", name |-> name])
  /\ UNCHANGED notStoreVars

InitStore ==
  /\ SimIdle /\ StatIdle /\ PortIdle /\ OptIdle /\ NoRandomNormal
  /\ LibIdle /\ BtIdle
  /\ stored \in {NoItem, Unreadable}
  /\ storeLog = <<>>

NextStore == SaveScenario \/ LoadScenario \/ DeleteScenario

SpecStore == InitStore /\ [][NextStore]_vars

\* ------------------------------------------------------------------ C29
\* the map that the calls of a log describe: the scenario saved last under
\* each name and not deleted since
RECURSIVE MapOf(_)
MapOf(log) ==
  IF log = <<>> THEN [n \in {} |-> 0]
  ELSE LET before == MapOf(SubSeq(log, 1, Len(log) - 1))
           last == log[Len(log)]
       IN IF last.call = "saveScenario"
            THEN [n \in DOMAIN before \cup {last.name} |->
                    IF n = last.name THEN last.data ELSE before[n]]
          ELSE IF last.call = "deleteScenario"
            THEN [n \in DOMAIN before \ {last.name} |-> before[n]]
          ELSE before

\* what loadScenario(name) returns for a map
Lookup(map, name) ==
  IF name \in DOMAIN map THEN [kind |-> "own", value |-> map[name]]
  ELSE [kind |-> "null"]

\* C29: over any sequence of saveScenario, deleteScenario and loadScenario
\* the store is a map keyed by name: loadScenario(n) returns the data saved
\* last under n with its savedAt, and null when n was never saved or was
\* deleted since, whatever was saved or deleted under other names and also
\* when the item was unreadable at first
C29_StoreIsMap ==
  \A k \in DOMAIN storeLog :
    storeLog[k].call = "loadScenario" =>
      storeLog[k].returned =
        Lookup(MapOf(SubSeq(storeLog, 1, k - 1)), storeLog[k].name)

\* in every state, for names that Object.prototype does not have and data
\* that JSON writes unchanged, the item read back is the map of the calls
C29_OrdinaryNames ==
  \A name \in ScenarioNames \ PrototypeMembers :
    (name \in DOMAIN MapOf(storeLog) =>
       \A f \in DOMAIN MapOf(storeLog)[name] :
         IsFiniteNum(MapOf(storeLog)[name][f]))
      => loadScenario(stored, name) = Lookup(MapOf(storeLog), name)

\* what the calls loadScenario of the log returned, for such names and data
C29_LoadsOfLog ==
  \A k \in DOMAIN storeLog :
    (storeLog[k].call = "loadScenario"
       /\ storeLog[k].name \notin PrototypeMembers
       /\ \A j \in 1 .. k - 1 :
            storeLog[j].call = "saveScenario" =>
              \A f \in DOMAIN storeLog[j].data :
                IsFiniteNum(storeLog[j].data[f]))
      => storeLog[k].returned =
           Lookup(MapOf(SubSeq(storeLog, 1, k - 1)), storeLog[k].name)

\* a name never saved is loaded and the call returns a member of
\* Object.prototype
C29_InheritedLoaded ==
  /\ Len(storeLog) = 1
  /\ storeLog[1].call = "loadScenario"
  /\ storeLog[1].name = "constructor"
  /\ storeLog[1].returned.kind = "inherited"

\* a scenario saved under __proto__ is not stored
C29_ProtoNotSaved ==
  /\ Len(storeLog) = 1
  /\ storeLog[1].call = "saveScenario"
  /\ storeLog[1].name = "__proto__"
  /\ stored.json = <<>>

\* a save under one name, then a save and a delete under another: the first
\* scenario is still there
C29_OthersKept ==
  /\ Len(storeLog) = 3
  /\ storeLog[1].call = "saveScenario" /\ storeLog[1].name = "base"
  /\ storeLog[2].call = "saveScenario" /\ storeLog[2].name = "bull"
  /\ storeLog[3].call = "deleteScenario" /\ storeLog[3].name = "bull"
  /\ loadScenario(stored, "base") =
       [kind |-> "own", value |-> storeLog[1].data]
  /\ loadScenario(stored, "bull") = [kind |-> "null"]

\* ======================================================= VaR and CVaR
MaxReturns == 3

ReturnValues == {-100, -50, 0, 100}

ReturnSeries == UNION {[1 .. n -> ReturnValues] : n \in 1 .. MaxReturns}

\* confidences in [0,1)
TailConfidences == {0, 50, 500, 990}

CVaRCalls ==
  [op : {"calculateCVaR"}, returns : ReturnSeries,
   confidence : TailConfidences]

\* RiskManager.calculateVaR and RiskManager.calculateCVaR of one series
CVaRCall ==
  /\ libIn.op = "calculateCVaR"
  /\ ~libOut.returned
  /\ libOut' = [returned |-> TRUE, kind |-> "calculateCVaR",
                var |-> RiskManager_calculateVaR(libIn.returns,
                                                 libIn.confidence),
                cvar |-> RiskManager_calculateCVaR(libIn.returns,
                                                   libIn.confidence)]
  /\ UNCHANGED <<libIn, notLibVars>>

\* ------------------------------------------------------------------ C30
CVaRReturned == libOut.returned /\ libOut.kind = "calculateCVaR"

\* the return at index floor(N * confidence) of the ascending sort
TailReturn ==
  At(SortAsc(libIn.returns), FloorMul(Len(libIn.returns), libIn.confidence))

\* C30: for a non-empty series and a confidence in [0,1),
\* calculateCVaR >= calculateVaR >= 0
C30_CVaRAtLeastVaR ==
  CVaRReturned =>
    /\ FLessEq(0, libOut.var)
    /\ FLessEq(libOut.var, libOut.cvar)

\* VaR alone is never negative
C30_VaRNonNegative == CVaRReturned => FLessEq(0, libOut.var)

\* the order holds when the return at the index is a loss or zero
C30_LossAtIndex ==
  (CVaRReturned /\ FLessEq(TailReturn, 0)) =>
    FLessEq(libOut.var, libOut.cvar)

\* the return at the index is a gain: VaR is that gain and CVaR is 0
C30_GainAsLoss ==
  /\ CVaRReturned
  /\ libIn.returns = <<100>>
  /\ libIn.confidence = 50
  /\ libOut.var = 100
  /\ libOut.cvar = 0

\* two losses and a gain at confidence 0.5: VaR 0.05, CVaR 0.075
C30_LossReached ==
  /\ CVaRReturned
  /\ libIn.returns = <<-50, 100, -100>>
  /\ libIn.confidence = 500
  /\ libOut.var = 50
  /\ libOut.cvar = 75

\* ========================================= the calls of the pure functions
LibraryCalls == OptimizerCalls \cup CorrelatedStepCalls \cup CVaRCalls

InitLibrary ==
  /\ SimIdle
  /\ StatIdle
  /\ PortIdle
  /\ OptIdle
  /\ NoRandomNormal
  /\ BtIdle
  /\ StoreIdle
  /\ libIn \in LibraryCalls
  /\ libOut = NoResult

NextLibrary ==
  MeanVarianceCall \/ FrontierCall \/ CorrelatedStepCall \/ CVaRCall

SpecLibrary == InitLibrary /\ [][NextLibrary]_vars

====
